---- MODULE Spec2Model ----
(***************************************************************************)
(* Banko plate generator: the plate validator (validator.ts), the plate    *)
(* generator (plateGenerator.ts) and the prank calculator                  *)
(* (prankCalculator.ts).                                                   *)
(*                                                                         *)
(* Rows and columns are numbered from 1 here (the code counts from 0); the *)
(* validator's messages print row + 1 and col + 1, so the numbers in the   *)
(* modelled messages are the ones the code prints.                         *)
(***************************************************************************)
EXTENDS Integers, Sequences, FiniteSets, TLC

(***************************************************************************)
(* types.ts: BANKO_CONSTANTS, COLUMN_RANGES, the empty cell.               *)
(***************************************************************************)
ROWS == 3
COLUMNS == 9
NUMBERS_PER_ROW == 5
TOTAL_NUMBERS == 15
MAX_PER_COLUMN == 3
null == -1

COLUMN_RANGES ==
  << [min |-> 1,  max |-> 9],
     [min |-> 10, max |-> 19],
     [min |-> 20, max |-> 29],
     [min |-> 30, max |-> 39],
     [min |-> 40, max |-> 49],
     [min |-> 50, max |-> 59],
     [min |-> 60, max |-> 69],
     [min |-> 70, max |-> 79],
     [min |-> 80, max |-> 90] >>

(***************************************************************************)
(* Array helpers: a for-loop that pushes onto a list, Array.prototype.sort *)
(* with the comparator (a, b) => a - b, Array.prototype.join and           *)
(* JSON.stringify on lists of integers (as lists of characters).           *)
(***************************************************************************)
ForEach(n, F(_)) ==
  LET acc[i \in 0..n] == IF i = 0 THEN << >> ELSE acc[i - 1] \o F(i)
  IN acc[n]

Range(s) == { s[i] : i \in 1..Len(s) }

sortAscending(s) == SortSeq(s, LAMBDA a, b : a < b)

DigitChar == << "0", "1", "2", "3", "4", "5", "6", "7", "8", "9" >>

RECURSIVE numberToString(_)
numberToString(n) ==
  IF n < 0 THEN << "-" >> \o numberToString(0 - n)
  ELSE IF n < 10 THEN << DigitChar[n + 1] >>
  ELSE numberToString(n \div 10) \o << DigitChar[(n % 10) + 1] >>

join(s, sep) ==
  ForEach(Len(s), LAMBDA i :
    (IF i = 1 THEN << >> ELSE << sep >>) \o numberToString(s[i]))

JSONstringify(s) == << "[" >> \o join(s, ",") \o << "]" >>

(***************************************************************************)
(* validator.ts: each rule returns the messages it pushes onto errors, in  *)
(* the order it pushes them. A message is a tuple: its kind, then the      *)
(* values the code interpolates into the text.                             *)
(***************************************************************************)
cellsOfRow(row) == SelectSeq(row, LAMBDA cell : cell # null)

\* FN-110
validateGridDimensions(plate) ==
  IF Len(plate.grid) # ROWS
  THEN << << "rows", Len(plate.grid) >> >>
  ELSE ForEach(Len(plate.grid), LAMBDA i :
         IF Len(plate.grid[i]) # COLUMNS
         THEN << << "columns", i, Len(plate.grid[i]) >> >>
         ELSE << >>)

\* FN-111
validateNumbersPerRow(plate) ==
  ForEach(Len(plate.grid), LAMBDA i :
    LET numbersInRow == Len(cellsOfRow(plate.grid[i]))
    IN IF numbersInRow # NUMBERS_PER_ROW
       THEN << << "rowcount", i, numbersInRow >> >>
       ELSE << >>)

gridCountOf(grid) ==
  LET acc[i \in 0..Len(grid)] ==
        IF i = 0 THEN 0 ELSE acc[i - 1] + Len(cellsOfRow(grid[i]))
  IN acc[Len(grid)]

\* FN-112
validateTotalNumbers(plate) ==
  (IF Len(plate.numbers) # TOTAL_NUMBERS
   THEN << << "total", Len(plate.numbers) >> >>
   ELSE << >>)
  \o
  (IF gridCountOf(plate.grid) # TOTAL_NUMBERS
   THEN << << "gridtotal", gridCountOf(plate.grid) >> >>
   ELSE << >>)

\* A faulty variant of validateColumnRanges that also rejects the lowest
\* number of a column (cell <= range.min).
validateColumnRangesOpenMin(plate) ==
  ForEach(Len(plate.grid), LAMBDA rowIdx :
    ForEach(Len(plate.grid[rowIdx]), LAMBDA col :
      LET cell == plate.grid[rowIdx][col]
      IN IF /\ cell # null
            /\ col <= Len(COLUMN_RANGES)
            /\ (cell <= COLUMN_RANGES[col].min \/ cell > COLUMN_RANGES[col].max)
         THEN << << "range", cell, rowIdx, col >> >>
         ELSE << >>))

\* FN-113: COLUMN_RANGES[col] is undefined past the ninth column, and the
\* cell is then skipped.
validateColumnRanges(plate) ==
  ForEach(Len(plate.grid), LAMBDA rowIdx :
    ForEach(Len(plate.grid[rowIdx]), LAMBDA col :
      LET cell == plate.grid[rowIdx][col]
      IN IF /\ cell # null
            /\ col <= Len(COLUMN_RANGES)
            /\ (cell < COLUMN_RANGES[col].min \/ cell > COLUMN_RANGES[col].max)
         THEN << << "range", cell, rowIdx, col >> >>
         ELSE << >>))

\* The numbers of column col from the top row down; row[col] is undefined in
\* a row that is too short.
numbersInColumnOf(grid, col) ==
  ForEach(Len(grid), LAMBDA rowIdx :
    IF col <= Len(grid[rowIdx]) /\ grid[rowIdx][col] # null
    THEN << grid[rowIdx][col] >>
    ELSE << >>)

\* FN-114
validateMaxPerColumn(plate) ==
  ForEach(COLUMNS, LAMBDA col :
    LET count == Len(numbersInColumnOf(plate.grid, col))
    IN IF count > MAX_PER_COLUMN
       THEN << << "maxcolumn", col, count >> >>
       ELSE << >>)

\* FN-116: one message per column, at the first pair out of order.
validateAscendingOrder(plate) ==
  ForEach(COLUMNS, LAMBDA col :
    LET numbersInColumn == numbersInColumnOf(plate.grid, col)
    IN IF \E i \in 2..Len(numbersInColumn) :
            numbersInColumn[i] <= numbersInColumn[i - 1]
       THEN << << "ascending", col, numbersInColumn >> >>
       ELSE << >>)

validateNoDuplicates(plate) ==
  ForEach(Len(plate.numbers), LAMBDA i :
    IF \E j \in 1..(i - 1) : plate.numbers[j] = plate.numbers[i]
    THEN << << "duplicate", plate.numbers[i] >> >>
    ELSE << >>)

gridNumbersOf(grid) ==
  ForEach(Len(grid), LAMBDA rowIdx : cellsOfRow(grid[rowIdx]))

validateGridMatchesNumbers(plate) ==
  LET sortedGrid == sortAscending(gridNumbersOf(plate.grid))
      sortedNumbers == sortAscending(plate.numbers)
  IN IF JSONstringify(sortedGrid) # JSONstringify(sortedNumbers)
     THEN << << "mismatch" >> >>
     ELSE << >>

\* A faulty variant of validatePlate that returns after the first rule
\* that pushed a message.
validatePlateFirstRuleOnly(plate) ==
  LET rules == << validateGridDimensions(plate),
                  validateNumbersPerRow(plate),
                  validateTotalNumbers(plate),
                  validateColumnRanges(plate),
                  validateMaxPerColumn(plate),
                  validateAscendingOrder(plate),
                  validateNoDuplicates(plate),
                  validateGridMatchesNumbers(plate) >>
      failing == { i \in DOMAIN rules : Len(rules[i]) > 0 }
      errors == IF failing = { } THEN << >>
                ELSE rules[CHOOSE i \in failing : \A j \in failing : i <= j]
  IN [isValid |-> Len(errors) = 0, errors |-> errors]

validatePlate(plate) ==
  LET errors ==
        validateGridDimensions(plate)
        \o validateNumbersPerRow(plate)
        \o validateTotalNumbers(plate)
        \o validateColumnRanges(plate)
        \o validateMaxPerColumn(plate)
        \o validateAscendingOrder(plate)
        \o validateNoDuplicates(plate)
        \o validateGridMatchesNumbers(plate)
  IN [isValid |-> Len(errors) = 0, errors |-> errors]

\* validator.ts getPlateHash: sort a copy, then join.
validatorGetPlateHash(plate) == join(sortAscending(plate.numbers), ",")

\* IFN-200: one message for each plate whose hash an earlier plate has.
validatePlatesUniqueness(ps) ==
  LET errors ==
        ForEach(Len(ps), LAMBDA i :
          IF \E j \in 1..(i - 1) :
               validatorGetPlateHash(ps[j]) = validatorGetPlateHash(ps[i])
          THEN << << "duplicatePlate", ps[i].id >> >>
          ELSE << >>)
  IN [isValid |-> Len(errors) = 0, errors |-> errors]

(***************************************************************************)
(* plateGenerator.ts: extractNumbers and getPlateHash.                     *)
(***************************************************************************)
\* A faulty variant of extractNumbers without the final sort.
extractNumbersUnsorted(grid) == gridNumbersOf(grid)

extractNumbers(grid) == sortAscending(gridNumbersOf(grid))

\* A faulty variant of getPlateHash: the cells of the grid joined row by
\* row.
getPlateHashOfCells(plate) == join(gridNumbersOf(plate.grid), ",")

getPlateHash(plate) == join(plate.numbers, ",")

(***************************************************************************)
(* Plates used as inputs. GridA..GridD hold four different number sets;    *)
(* GridE holds the numbers of GridA in another arrangement. Every number   *)
(* of GridC is on GridA or GridB; GridD is GridA with 3 in place of 1.     *)
(***************************************************************************)
GridA ==
  LET x == null
  IN << << 1, 10, 20, 30, 40,  x,  x,  x,  x >>,
        << x,  x, 21, 31, 41, 50, 60,  x,  x >>,
        << x,  x,  x,  x, 42, 51, 61, 70, 80 >> >>

GridB ==
  LET x == null
  IN << << 2, 11, 22, 32, 43,  x,  x,  x,  x >>,
        << x,  x, 23, 33, 44, 52, 62,  x,  x >>,
        << x,  x,  x,  x, 45, 53, 63, 71, 81 >> >>

GridC ==
  LET x == null
  IN << << 1, 11, 20, 31, 40,  x,  x,  x,  x >>,
        << x,  x, 23, 32, 44, 50, 61,  x,  x >>,
        << x,  x,  x,  x, 45, 53, 62, 71, 80 >> >>

GridD ==
  LET x == null
  IN << << 3, 10, 20, 30, 40,  x,  x,  x,  x >>,
        << x,  x, 21, 31, 41, 50, 60,  x,  x >>,
        << x,  x,  x,  x, 42, 51, 61, 70, 80 >> >>

GridE ==
  LET x == null
  IN << << x, 10, 20, 30, 40,  x,  x,  x, 80 >>,
        << x,  x, 21, 31, 41, 50, 60,  x,  x >>,
        << 1,  x,  x,  x, 42, 51, 61, 70,  x >> >>

\* What attemptPlateGeneration returns for a grid: { id, grid, numbers }.
makePlate(id, grid) == [id |-> id, grid |-> grid, numbers |-> extractNumbers(grid)]

NoPlate == [id |-> << >>, grid |-> << >>, numbers |-> << >>]
NoValidation == [isValid |-> FALSE, errors |-> << << "none" >> >>]

NoError == << >>

(***************************************************************************)
(* State. Each specification below runs one component and leaves the       *)
(* variables of the others at their initial values.                        *)
(***************************************************************************)
VARIABLES
  \* the validator on a hand-built plate; validations counts the calls of
  \* validatePlate on the plate as it is now
  card, validation, edits, validations,
  \* generatePlate: its position, loop counter, the draft in hand and its
  \* validation, the error thrown; built and rejections count the drafts
  \* built and rejected so far
  platePc, attempt, plate, plateValidation, plateError, built, rejections,
  \* generatePlates: its position, argument, locals and the error thrown;
  \* generated counts the calls of generatePlate, skippedIds holds the ids
  \* of the plates skipped as duplicates
  batchPc, count, plates, seenHashes, attempts, batchError,
  generated, skippedIds,
  \* generatePrankPlates: its position, argument, the plates generatePlates
  \* returned, the locals of findOptimalWinningPlates, the result returned
  \* and the error thrown; batchCalls counts the calls of generatePlates;
  \* exclusions holds, for each list of candidate winner ids, what
  \* calculateExcludedNumbers returns for it on the plates
  prankPc, config, prankPlates, prankAttempt, bestScore, bestResult,
  prankResult, prankError, batchCalls, exclusions,
  \* feasibleSeen: some pass of the search loop so far had a non-empty
  \* exclusion list that hits every non-winning plate; triedLengths: the
  \* lengths of the exclusion lists of the passes so far; lastLength: the
  \* length of the exclusion list of the latest pass
  feasibleSeen, triedLengths, lastLength,
  \* useBankoGenerator: its three refs; the position and the arguments of
  \* the call in hand, the promise that call returned and what the
  \* generator threw inside it
  isGenerating, generationResult, error, genPc, genCall, promise, thrown,
  \* attemptPlateGeneration: its position; tape and tapePos are the values
  \* Math.random() returns and the place of the next one; columnOrder,
  \* columnCounts and rowCounts are the locals of distributeColumnsToRows,
  \* loopIdx the index of the loop it is in; draftGrid is the grid being
  \* filled; gaveUp: the repair loop was left while a row was short;
  \* repairs counts the rows the repair loop gave to a column
  draftPc, tape, tapePos, columnOrder, loopIdx, columnCounts, rowCounts,
  draftGrid, gaveUp, repairs,
  \* getColumnForNumber: its position, its argument, the column it returned
  \* and the error it threw
  columnPc, numArg, column, columnError,
  \* useBankoGenerator when calls overlap: the calls that wait for their
  \* timer, oldest first; callsMade counts the calls; lastOutcome is how the
  \* call that ended last ended
  pendingCalls, callsMade, lastOutcome

valVars == << card, validation, edits, validations >>
plateVars ==
  << platePc, attempt, plate, plateValidation, plateError, built, rejections >>
batchVars ==
  << batchPc, count, plates, seenHashes, attempts, batchError,
     generated, skippedIds >>
prankVars ==
  << prankPc, config, prankPlates, prankAttempt, bestScore, bestResult,
     prankResult, prankError, batchCalls, exclusions, feasibleSeen,
     triedLengths, lastLength >>
composableVars ==
  << isGenerating, generationResult, error, genPc, genCall, promise, thrown >>
draftVars ==
  << draftPc, tape, tapePos, columnOrder, loopIdx, columnCounts, rowCounts,
     draftGrid, gaveUp, repairs >>
lookupVars == << columnPc, numArg, column, columnError >>
overlapVars == << pendingCalls, callsMade, lastOutcome >>
vars ==
  << valVars, plateVars, batchVars, prankVars, composableVars, draftVars,
     lookupVars, overlapVars >>

NoConfig == [totalPlates |-> 0, winningPlatesCount |-> 0]
NoBest == [winningPlateIds |-> << >>, excludedNumbers |-> << -1 >>]
NoPrankResult ==
  [plates |-> << >>, winningPlateIds |-> << >>, excludedNumbers |-> << -1 >>,
   summary |-> << >>]

ValIdle ==
  /\ card = NoPlate
  /\ validation = NoValidation
  /\ edits = 0
  /\ validations = 0

PlateIdle ==
  /\ platePc = "idle"
  /\ attempt = 0
  /\ plate = NoPlate
  /\ plateValidation = NoValidation
  /\ plateError = NoError
  /\ built = 0
  /\ rejections = 0

BatchIdle ==
  /\ batchPc = "idle"
  /\ count = 0
  /\ plates = << >>
  /\ seenHashes = { }
  /\ attempts = 0
  /\ batchError = NoError
  /\ generated = 0
  /\ skippedIds = { }

PrankIdle ==
  /\ prankPc = "idle"
  /\ config = NoConfig
  /\ prankPlates = << >>
  /\ prankAttempt = 0
  /\ bestScore = -1
  /\ bestResult = NoBest
  /\ prankResult = NoPrankResult
  /\ prankError = NoError
  /\ batchCalls = 0
  /\ exclusions = << >>
  /\ feasibleSeen = FALSE
  /\ triedLengths = { }
  /\ lastLength = -1

\* generationResult.value = null
nullResult ==
  [plates |-> << >>, winningPlateIds |-> << >>, excludedNumbers |-> << -1 >>,
   summary |-> [totalPlates |-> 0, winningPlates |-> 0,
                numbersToExclude |-> << >>]]

NoCall == [kind |-> "none", count |-> 0, config |-> NoConfig]
NoPromise == [state |-> "none", value |-> << >>]

ComposableIdle ==
  /\ isGenerating = FALSE
  /\ generationResult = nullResult
  /\ error = NoError
  /\ genPc = "idle"
  /\ genCall = NoCall
  /\ promise = NoPromise
  /\ thrown = NoError

DraftIdle ==
  /\ draftPc = "idle"
  /\ tape = << >>
  /\ tapePos = 0
  /\ columnOrder = << >>
  /\ loopIdx = 0
  /\ columnCounts = << >>
  /\ rowCounts = << >>
  /\ draftGrid = << >>
  /\ gaveUp = FALSE
  /\ repairs = 0

LookupIdle ==
  /\ columnPc = "idle"
  /\ numArg = 0
  /\ column = null
  /\ columnError = NoError

OverlapIdle ==
  /\ pendingCalls = << >>
  /\ callsMade = 0
  /\ lastOutcome = "none"

ValOnly ==
  UNCHANGED << plateVars, batchVars, prankVars, composableVars, draftVars,
               lookupVars, overlapVars >>
PlateOnly ==
  UNCHANGED << valVars, batchVars, prankVars, composableVars, draftVars,
               lookupVars, overlapVars >>
BatchOnly ==
  UNCHANGED << valVars, plateVars, prankVars, composableVars, draftVars,
               lookupVars, overlapVars >>
PrankOnly ==
  UNCHANGED << valVars, plateVars, batchVars, composableVars, draftVars,
               lookupVars, overlapVars >>
ComposableOnly ==
  UNCHANGED << valVars, plateVars, batchVars, prankVars, draftVars,
               lookupVars >>
DraftOnly ==
  UNCHANGED << valVars, batchVars, prankVars, composableVars, lookupVars,
               overlapVars >>
LookupOnly ==
  UNCHANGED << valVars, plateVars, batchVars, prankVars, composableVars,
               draftVars, overlapVars >>

(***************************************************************************)
(* The validator on hand-built plates: a plate starts as a generated one   *)
(* and is then edited cell by cell, row by row and in its numbers list.    *)
(***************************************************************************)
MaxEdits == 2
MaxValidations == 2

EditCells == { << 1, 1 >>, << 2, 1 >>, << 1, 5 >>, << 2, 5 >>, << 3, 9 >> }
CellValues == { null, 2, 41, 44, 91 }
NumberValues == { 2, 41 }

setCell(grid, r, c, v) == [grid EXCEPT ![r] = [@ EXCEPT ![c] = v]]

ValInit ==
  /\ card \in { makePlate(<< 0, << 1 >> >>, GridA) }
  /\ validation = NoValidation
  /\ edits = 0
  /\ validations = 0
  /\ PlateIdle
  /\ BatchIdle
  /\ PrankIdle
  /\ ComposableIdle
  /\ DraftIdle
  /\ LookupIdle
  /\ OverlapIdle

CanEdit == edits < MaxEdits

Edited(newCard) ==
  /\ card' = newCard
  /\ edits' = edits + 1
  /\ validation' = NoValidation
  /\ validations' = 0
  /\ ValOnly

SetCell ==
  /\ CanEdit
  /\ \E rc \in EditCells, v \in CellValues :
       /\ rc[1] <= Len(card.grid)
       /\ rc[2] <= Len(card.grid[rc[1]])
       /\ Edited([card EXCEPT !.grid = setCell(card.grid, rc[1], rc[2], v)])

AddRow ==
  /\ CanEdit
  /\ Len(card.grid) >= 1
  /\ Len(card.grid) <= ROWS
  /\ Edited([card EXCEPT !.grid = Append(card.grid, card.grid[Len(card.grid)])])

DropRow ==
  /\ CanEdit
  /\ Len(card.grid) >= ROWS
  /\ Edited([card EXCEPT !.grid = SubSeq(card.grid, 1, Len(card.grid) - 1)])

ExtendRow ==
  /\ CanEdit
  /\ \E r \in 1..Len(card.grid), v \in { null, 91 } :
       /\ Len(card.grid[r]) <= COLUMNS
       /\ Edited([card EXCEPT !.grid = [@ EXCEPT ![r] = Append(@, v)]])

TrimRow ==
  /\ CanEdit
  /\ \E r \in 1..Len(card.grid) :
       /\ Len(card.grid[r]) >= COLUMNS
       /\ Edited([card EXCEPT !.grid =
                    [@ EXCEPT ![r] = SubSeq(@, 1, Len(@) - 1)]])

PushNumber ==
  /\ CanEdit
  /\ \E v \in NumberValues : Edited([card EXCEPT !.numbers = Append(@, v)])

PopNumber ==
  /\ CanEdit
  /\ Len(card.numbers) >= 1
  /\ Edited([card EXCEPT !.numbers = SubSeq(@, 1, Len(@) - 1)])

ReverseNumbers ==
  /\ CanEdit
  /\ Len(card.numbers) >= 2
  /\ Edited([card EXCEPT !.numbers =
               [i \in 1..Len(@) |-> @[Len(@) + 1 - i]]])

\* numbers taken from the grid again, as attemptPlateGeneration does.
DeriveNumbers ==
  /\ card.numbers # extractNumbers(card.grid)
  /\ card' = [card EXCEPT !.numbers = extractNumbers(card.grid)]
  /\ validation' = NoValidation
  /\ validations' = 0
  /\ UNCHANGED edits
  /\ ValOnly

\* A faulty variant of plateAfterValidation: numbers sorted in place
\* instead of in a copy.
plateSortedInPlace(p) == [p EXCEPT !.numbers = sortAscending(@)]

\* What the plate is after validatePlate(plate): the rules only read the
\* plate, and validateGridMatchesNumbers sorts copies ([...x].sort) of the
\* grid numbers and of plate.numbers.
plateAfterValidation(p) == p

\* const validation = validatePlate(card), on a plate validated or not.
Validate ==
  /\ validations < MaxValidations
  /\ validation' = validatePlate(card)
  /\ card' = plateAfterValidation(card)
  /\ validations' = validations + 1
  /\ UNCHANGED edits
  /\ ValOnly

ValNext ==
  \/ SetCell
  \/ AddRow
  \/ DropRow
  \/ ExtendRow
  \/ TrimRow
  \/ PushNumber
  \/ PopNumber
  \/ ReverseNumbers
  \/ DeriveNumbers
  \/ Validate

SpecValidator == ValInit /\ [][ValNext]_vars

(***************************************************************************)
(* The seven structural invariants of a plate, stated on the plate itself. *)
(***************************************************************************)
Occupied(grid) ==
  { rc \in (1..Len(grid)) \X (1..(COLUMNS + 1)) :
      rc[2] <= Len(grid[rc[1]]) /\ grid[rc[1]][rc[2]] # null }

ColumnMin(c) == IF c = 1 THEN 1 ELSE 10 * (c - 1)
ColumnMax(c) == IF c = COLUMNS THEN 90 ELSE 10 * (c - 1) + 9

CountIn(s, v) == Cardinality({ i \in 1..Len(s) : s[i] = v })

InvDimensions(p) ==
  /\ Len(p.grid) = 3
  /\ \A r \in 1..Len(p.grid) : Len(p.grid[r]) = 9

InvRowCount(p) ==
  \A r \in 1..Len(p.grid) :
    Cardinality({ rc \in Occupied(p.grid) : rc[1] = r }) = 5

InvFifteenDistinct(p) ==
  /\ Len(p.numbers) = 15
  /\ Cardinality(Occupied(p.grid)) = 15
  /\ Cardinality(Range(p.numbers)) = Len(p.numbers)

InvColumnRange(p) ==
  \A rc \in Occupied(p.grid) :
    rc[2] <= COLUMNS =>
      p.grid[rc[1]][rc[2]] \in ColumnMin(rc[2])..ColumnMax(rc[2])

InvMaxPerColumn(p) ==
  \A c \in 1..COLUMNS :
    Cardinality({ rc \in Occupied(p.grid) : rc[2] = c }) <= 3

ColumnAscending(p, c) ==
  \A r1, r2 \in 1..Len(p.grid) :
    (r1 < r2 /\ << r1, c >> \in Occupied(p.grid) /\ << r2, c >> \in Occupied(p.grid))
      => p.grid[r1][c] < p.grid[r2][c]

InvAscending(p) == \A c \in 1..COLUMNS : ColumnAscending(p, c)

InvGridIsNumbers(p) ==
  LET cells == gridNumbersOf(p.grid)
  IN \A v \in Range(cells) \cup Range(p.numbers) :
       CountIn(cells, v) = CountIn(p.numbers, v)

SevenInvariants(p) ==
  /\ InvDimensions(p)
  /\ InvRowCount(p)
  /\ InvFifteenDistinct(p)
  /\ InvColumnRange(p)
  /\ InvMaxPerColumn(p)
  /\ InvAscending(p)
  /\ InvGridIsNumbers(p)

HasError(v, kinds) == \E i \in 1..Len(v.errors) : v.errors[i][1] \in kinds

Validated == validation # NoValidation

\* C5: validatePlate(card).isValid is true exactly when the card satisfies
\* all seven structural invariants.
C5_ValidIffSevenInvariants ==
  Validated => (validation.isValid <=> SevenInvariants(card))

\* C5 witness: a hand-edited plate that validatePlate accepts, and whose
\* numbers differ from those of the plate it was built from.
C5_Witness ==
  /\ Validated
  /\ validation.isValid
  /\ edits >= 1
  /\ card.numbers # extractNumbers(GridA)

\* C6: every invariant the card breaks has at least one message in errors,
\* whichever other invariants are broken; a row without exactly 5 numbers
\* has a row-count message naming that row, and a column whose numbers do
\* not strictly increase has an ascending-order message naming that column.
C6_EveryBrokenInvariantReported ==
  Validated =>
    /\ ~InvDimensions(card) => HasError(validation, { "rows", "columns" })
    /\ ~InvRowCount(card) => HasError(validation, { "rowcount" })
    /\ ~InvFifteenDistinct(card)
         => HasError(validation, { "total", "gridtotal", "duplicate" })
    /\ ~InvColumnRange(card) => HasError(validation, { "range" })
    /\ ~InvMaxPerColumn(card) => HasError(validation, { "maxcolumn" })
    /\ ~InvAscending(card) => HasError(validation, { "ascending" })
    /\ ~InvGridIsNumbers(card) => HasError(validation, { "mismatch" })
    /\ \A r \in 1..Len(card.grid) :
         Cardinality({ rc \in Occupied(card.grid) : rc[1] = r }) # 5
           => \E i \in 1..Len(validation.errors) :
                /\ validation.errors[i][1] = "rowcount"
                /\ validation.errors[i][2] = r
    /\ \A c \in 1..COLUMNS :
         ~ColumnAscending(card, c)
           => \E i \in 1..Len(validation.errors) :
                /\ validation.errors[i][1] = "ascending"
                /\ validation.errors[i][2] = c

\* C6 witness: a validated plate with 6 numbers in row 2 and two equal
\* values in column 5, so two invariants are broken at once.
C6_Witness ==
  /\ Validated
  /\ Cardinality({ rc \in Occupied(card.grid) : rc[1] = 2 }) = 6
  /\ ~ColumnAscending(card, 5)
  /\ Len(card.grid) = 3

(***************************************************************************)
(* plateGenerator.ts generatePlateId: `plate_${Date.now()}_${random}`,     *)
(* where random is Math.random().toString(36).substring(2, 11). A value of *)
(* Math.random() is given by the base-36 digits of its fraction; 0 prints  *)
(* as "0" and any other value as "0." followed by its digits.              *)
(***************************************************************************)
MaxClock == 0

RandomFractions ==
  { << >>,
    << "a", "a", "a", "a", "a", "a", "a", "a", "a", "b" >>,
    << "a", "a", "a", "a", "a", "a", "a", "a", "a", "c" >> }

toString36(fraction) ==
  IF fraction = << >> THEN << "0" >> ELSE << "0", "." >> \o fraction

substring(str, start, end) ==
  SubSeq(str, start + 1, IF end < Len(str) THEN end ELSE Len(str))

generatePlateId(timestamp, fraction) ==
  << timestamp, substring(toString36(fraction), 2, 11) >>

\* Date.now() is the wall clock: any of the values below, at every call.
ClockValues == 0..MaxClock

PlateIds ==
  { generatePlateId(ts, f) : ts \in ClockValues, f \in RandomFractions }

(***************************************************************************)
(* plateGenerator.ts generatePlate. attemptPlateGeneration is taken by its *)
(* contract ("may produce invalid plates - caller should validate"): it    *)
(* returns a plate with a fresh id, a grid out of DraftGrids and the       *)
(* numbers extracted from that grid. DraftGrids holds well-formed grids    *)
(* and grids that break a rule (a row of 4 numbers, a column out of        *)
(* order). SpecDraft, further down, takes attemptPlateGeneration as it is  *)
(* written, step by step.                                                  *)
(***************************************************************************)
plateMaxAttempts == 1000

ValidGrids == { GridA, GridB, GridE }

DraftGrids ==
  ValidGrids \cup { setCell(GridA, 1, 1, null), setCell(GridA, 1, 5, 44) }

\* What a call of generatePlate gives its caller: a plate out of the drafts
\* with a well-formed grid (C3 checks that it returns no other), or the
\* error it throws.
generatePlateReturns ==
  { makePlate(id, grid) : id \in PlateIds, grid \in ValidGrids }

generatePlateThrows ==
  << "Failed to generate valid plate after", plateMaxAttempts, "attempts" >>

plateLoopContinues(a) == a < plateMaxAttempts

\* Faulty variants of the test `if (validation.isValid)`: one that takes
\* every draft, one that takes none.
draftAcceptedAlways(v) == TRUE
draftAcceptedNever(v) == FALSE

draftAccepted(v) == v.isValid

PlateInit ==
  /\ ValIdle
  /\ PlateIdle
  /\ BatchIdle
  /\ PrankIdle
  /\ ComposableIdle
  /\ DraftIdle
  /\ LookupIdle
  /\ OverlapIdle

CallGeneratePlate ==
  /\ platePc = "idle"
  /\ platePc' = "loop"
  /\ attempt' = 0
  /\ UNCHANGED << plate, plateValidation, plateError, built, rejections >>
  /\ PlateOnly

\* const plate = attemptPlateGeneration()
AttemptPlateGeneration ==
  /\ platePc = "loop"
  /\ plateLoopContinues(attempt)
  /\ \E grid \in DraftGrids, ts \in ClockValues, f \in RandomFractions :
       plate' = makePlate(generatePlateId(ts, f), grid)
  /\ plateValidation' = NoValidation
  /\ built' = built + 1
  /\ platePc' = "validate"
  /\ UNCHANGED << attempt, plateError, rejections >>
  /\ PlateOnly

\* const validation = validatePlate(plate); if (validation.isValid) return plate
ValidateDraft ==
  /\ platePc = "validate"
  /\ plateValidation' = validatePlate(plate)
  /\ IF draftAccepted(plateValidation')
     THEN /\ platePc' = "returned"
          /\ UNCHANGED << attempt, plate, rejections >>
     ELSE /\ platePc' = "loop"
          /\ attempt' = attempt + 1
          /\ plate' = NoPlate
          /\ rejections' = rejections + 1
  /\ UNCHANGED << plateError, built >>
  /\ PlateOnly

ThrowGenerationFailed ==
  /\ platePc = "loop"
  /\ ~plateLoopContinues(attempt)
  /\ platePc' = "thrown"
  /\ plateError' = generatePlateThrows
  /\ UNCHANGED << attempt, plate, plateValidation, built, rejections >>
  /\ PlateOnly

PlateNext ==
  \/ CallGeneratePlate
  \/ AttemptPlateGeneration
  \/ ValidateDraft
  \/ ThrowGenerationFailed

SpecPlate == PlateInit /\ [][PlateNext]_vars

\* C3: the plate generatePlate returns passes validatePlate with isValid
\* true and no error; a draft that fails validation is never returned.
C3_ReturnedPlateIsValid ==
  platePc = "returned" =>
    /\ validatePlate(plate).isValid
    /\ validatePlate(plate).errors = << >>
    /\ SevenInvariants(plate)
    /\ plate \in generatePlateReturns

\* C3 witness: generatePlate has returned a plate after rejecting a draft.
C3_Witness ==
  /\ platePc = "returned"
  /\ rejections >= 1
  /\ plate # NoPlate

PlateDone == platePc \in { "returned", "thrown" }

\* Steps taken by generatePlate so far; no run takes more than 2002.
PlateProgress ==
  built + rejections
  + (IF platePc = "idle" THEN 0 ELSE 1)
  + (IF platePc \in { "returned", "thrown" } THEN 1 ELSE 0)

\* C9: generatePlate validates each draft right after building it, returns
\* the first draft that validates without building another, builds at most
\* 1000 drafts, throws only after 1000 drafts in a row were rejected, and
\* always ends by returning or throwing: until it has, a step is enabled,
\* and every step adds one to a count that never exceeds 2002.
C9_GeneratePlateCycle ==
  /\ [](/\ built <= 1000
        /\ platePc = "loop" => built = rejections
        /\ platePc = "validate" => built = rejections + 1
        /\ platePc = "returned" =>
             /\ built = rejections + 1
             /\ validatePlate(plate).isValid
        /\ platePc = "thrown" => (built = 1000 /\ rejections = 1000)
        /\ PlateProgress <= 2002
        /\ PlateDone \/ ENABLED PlateNext)
  /\ [][/\ built' # built => platePc' = "validate"
        /\ platePc = "validate" =>
             IF validatePlate(plate).isValid
             THEN platePc' = "returned" /\ plate' = plate /\ built' = built
             ELSE platePc' = "loop" /\ rejections' = rejections + 1
        /\ ~PlateDone
        /\ PlateProgress' = PlateProgress + 1]_vars

\* C9 witness: generatePlate has thrown, after 1000 rejected drafts.
C9_Witness ==
  /\ platePc = "thrown"
  /\ rejections = 1000
  /\ plateError # NoError

(***************************************************************************)
(* plateGenerator.ts generatePlates. One step of its loop takes what a     *)
(* call of generatePlate produces: a draft that validatePlate accepts,     *)
(* with the id attemptPlateGeneration gave it, or the error it throws.     *)
(***************************************************************************)
MaxCount == 2

\* A faulty variant of maxAttempts with room for one more attempt per plate.
batchMaxAttemptsPlusOne(n) == n * 10 + n

batchMaxAttempts(n) == n * 10

batchLoopContinues == Len(plates) < count /\ attempts < batchMaxAttempts(count)

\* if (!seenHashes.has(hash)) { seenHashes.add(hash); plates.push(plate) }
\* A faulty variant of `!seenHashes.has(hash)` that takes every plate.
isNewHashAlways(hash, seen) == TRUE

isNewHash(hash, seen) == hash \notin seen

BatchInit ==
  /\ ValIdle
  /\ PlateIdle
  /\ BatchIdle
  /\ PrankIdle
  /\ ComposableIdle
  /\ DraftIdle
  /\ LookupIdle
  /\ OverlapIdle

CallGeneratePlates ==
  /\ batchPc = "idle"
  /\ \E n \in (0 - 1)..MaxCount :
       /\ count' = n
       /\ IF n <= 0
          THEN /\ batchPc' = "thrown"
               /\ batchError' = << "Count must be positive" >>
          ELSE /\ batchPc' = "loop"
               /\ batchError' = NoError
  /\ plates' = << >>
  /\ seenHashes' = { }
  /\ attempts' = 0
  /\ UNCHANGED << generated, skippedIds >>
  /\ BatchOnly

\* One pass of the while loop in which generatePlate returns a plate.
GenerateOne ==
  /\ batchPc = "loop"
  /\ batchLoopContinues
  /\ attempts' = attempts + 1
  /\ generated' = generated + 1
  /\ \E p \in generatePlateReturns :
       LET hash == getPlateHash(p)
       IN IF isNewHash(hash, seenHashes)
          THEN /\ seenHashes' = seenHashes \cup { hash }
               /\ plates' = Append(plates, p)
               /\ UNCHANGED skippedIds
          ELSE /\ skippedIds' = skippedIds \cup { p.id }
               /\ UNCHANGED << seenHashes, plates >>
  /\ UNCHANGED << batchPc, count, batchError >>
  /\ BatchOnly

\* One pass of the while loop in which generatePlate throws: the error
\* leaves generatePlates as it is.
GenerateOneThrows ==
  /\ batchPc = "loop"
  /\ batchLoopContinues
  /\ attempts' = attempts + 1
  /\ generated' = generated + 1
  /\ batchPc' = "thrown"
  /\ batchError' = generatePlateThrows
  /\ UNCHANGED << count, plates, seenHashes, skippedIds >>
  /\ BatchOnly

ThrowIncomplete ==
  /\ batchPc = "loop"
  /\ ~batchLoopContinues
  /\ Len(plates) < count
  /\ batchPc' = "thrown"
  /\ batchError' = << "Could only generate", Len(plates),
                      "unique plates out of", count, "requested" >>
  /\ UNCHANGED << count, plates, seenHashes, attempts, generated, skippedIds >>
  /\ BatchOnly

ReturnPlates ==
  /\ batchPc = "loop"
  /\ ~batchLoopContinues
  /\ ~(Len(plates) < count)
  /\ batchPc' = "returned"
  /\ UNCHANGED << count, plates, seenHashes, attempts, batchError,
                  generated, skippedIds >>
  /\ BatchOnly

BatchNext ==
  \/ CallGeneratePlates
  \/ GenerateOne
  \/ GenerateOneThrows
  \/ ThrowIncomplete
  \/ ReturnPlates

SpecBatch == BatchInit /\ [][BatchNext]_vars

BatchDone == batchPc \in { "returned", "thrown" }

\* C4: generatePlates(N) returns exactly N plates whose number sets are
\* pairwise different, so that validatePlatesUniqueness reports no
\* duplicate, or it throws.
C4_BatchCompleteAndUnique ==
  /\ batchPc = "returned" =>
       /\ count >= 1
       /\ Len(plates) = count
       /\ \A i, j \in 1..Len(plates) :
            i # j => Range(plates[i].numbers) # Range(plates[j].numbers)
       /\ validatePlatesUniqueness(plates).isValid
       /\ batchError = NoError
  /\ (BatchDone /\ Len(plates) # count) => batchPc = "thrown"

\* C4 witness: a batch of two plates was returned although a duplicate of
\* an accepted plate was generated on the way.
C4_Witness ==
  /\ batchPc = "returned"
  /\ Len(plates) = 2
  /\ skippedIds # { }

\* C8: the ids of the plates of a returned batch are pairwise different,
\* and none of them is the id of a plate that was skipped as a duplicate.
C8_IdsUniqueInBatch ==
  batchPc = "returned" =>
    /\ \A i, j \in 1..Len(plates) : i # j => plates[i].id # plates[j].id
    /\ \A i \in 1..Len(plates) : plates[i].id \notin skippedIds

\* C10: a duplicate is skipped and still counts as an attempt; generatePlate
\* is called at most count * 10 times and never again once count plates
\* are collected; when the attempts run out with fewer than count plates
\* the error reports the number produced and the number requested; a
\* count <= 0 throws before generatePlate is called.
C10_AttemptBudget ==
  /\ [](/\ generated = attempts
        /\ count >= 1 => (generated <= count * 10 /\ Len(plates) <= count)
        /\ (batchPc # "idle" /\ count <= 0) =>
             /\ batchPc = "thrown"
             /\ batchError = << "Count must be positive" >>
             /\ generated = 0
        /\ (batchPc = "thrown" /\ count >= 1 /\ batchError # generatePlateThrows) =>
             /\ batchError = << "Could only generate", Len(plates),
                                "unique plates out of", count, "requested" >>
             /\ Len(plates) < count
             /\ generated = count * 10
        /\ batchPc = "returned" => Len(plates) = count)
  /\ [][/\ (generated' # generated /\ plates' = plates) =>
             attempts' = attempts + 1
        /\ generated' # generated =>
             (Len(plates) < count /\ generated' = generated + 1)
        /\ (batchPc = "loop" /\ Len(plates) = count) => batchPc' = "returned"
        /\ ~BatchDone]_vars

\* C10 witness: the attempts ran out with one plate of the two requested,
\* every other generated plate having been skipped as a duplicate.
C10_Witness ==
  /\ batchPc = "thrown"
  /\ count = 2
  /\ Len(plates) = 1
  /\ attempts = 20
  /\ skippedIds # { }

(***************************************************************************)
(* prankCalculator.ts: calculateExcludedNumbers and                        *)
(* findMinimalExclusionSet. A Set of numbers is the list of its elements   *)
(* in insertion order, which is the order a for-of loop visits them in.    *)
(***************************************************************************)
\* plates.filter(p => winningPlateIds.includes(p.id)) and its complement.
\* A faulty variant of winningPlatesOf that looks at the first winning id
\* only.
winningPlatesOfFirstId(ps, winningPlateIds) ==
  SelectSeq(ps, LAMBDA p : winningPlateIds # << >> /\ p.id = winningPlateIds[1])

winningPlatesOf(ps, winningPlateIds) ==
  SelectSeq(ps, LAMBDA p : p.id \in Range(winningPlateIds))

nonWinningPlatesOf(ps, winningPlateIds) ==
  SelectSeq(ps, LAMBDA p : p.id \notin Range(winningPlateIds))

\* The Set filled by adding every number of every plate, plate by plate:
\* a number stays where it was added first.
firstOccurrences(s) ==
  ForEach(Len(s), LAMBDA i :
    IF \E j \in 1..(i - 1) : s[j] = s[i] THEN << >> ELSE << s[i] >>)

\* A faulty variant of numbersOnPlates that stops after the first plate.
numbersOnFirstPlate(ps) ==
  IF Len(ps) = 0 THEN << >> ELSE firstOccurrences(ps[1].numbers)

numbersOnPlates(ps) ==
  ForEach(Len(ps), LAMBDA i :
    SelectSeq(firstOccurrences(ps[i].numbers),
              LAMBDA num : \A j \in 1..(i - 1) : num \notin Range(ps[j].numbers)))

\* A faulty variant of safeToExclude without the test against
\* winningNumbers.
safeToExcludeUnfiltered(nonWinningNumbers, winningNumbers) == nonWinningNumbers

\* The numbers of the non-winning plates that no winning plate has.
safeToExcludeOf(nonWinningNumbers, winningNumbers) ==
  SelectSeq(nonWinningNumbers, LAMBDA num : num \notin Range(winningNumbers))

\* numberToPlates.get(num): the ids of the non-winning plates with num.
platesWithNumber(nonWinningPlates, num) ==
  { nonWinningPlates[i].id :
      i \in { j \in 1..Len(nonWinningPlates) :
                num \in Range(nonWinningPlates[j].numbers) } }

\* A faulty variant of bestExclusion that takes the first open number that
\* blocks a plate at all.
bestExclusionFirstOpen(nonWinningPlates, safeToExclude, excluded, blockedPlates) ==
  LET newBlocks(i) ==
        Cardinality(platesWithNumber(nonWinningPlates, safeToExclude[i])
                      \ blockedPlates)
      useful == { i \in 1..Len(safeToExclude) :
                    /\ safeToExclude[i] \notin Range(excluded)
                    /\ newBlocks(i) >= 1 }
      first == CHOOSE i \in useful : \A j \in useful : i <= j
  IN IF useful = { }
     THEN [bestNum |-> -1, bestCount |-> 0]
     ELSE [bestNum |-> safeToExclude[first], bestCount |-> newBlocks(first)]

\* One pass of the inner for loop. The comparison newBlocks > bestCount is
\* strict and bestCount starts at 0, so the loop ends with the first
\* number, in the order of safeToExclude, that has the highest count, and
\* with -1 when no count is above 0.
bestExclusion(nonWinningPlates, safeToExclude, excluded, blockedPlates) ==
  LET newBlocks(i) ==
        Cardinality(platesWithNumber(nonWinningPlates, safeToExclude[i])
                      \ blockedPlates)
      open == { i \in 1..Len(safeToExclude) :
                  safeToExclude[i] \notin Range(excluded) }
      bestCount ==
        CHOOSE c \in 0..Len(nonWinningPlates) :
          /\ c = 0 \/ \E i \in open : newBlocks(i) = c
          /\ \A i \in open : newBlocks(i) <= c
      first ==
        LET top == { i \in open : newBlocks(i) = bestCount }
        IN CHOOSE i \in top : \A j \in top : i <= j
  IN IF bestCount = 0
     THEN [bestNum |-> -1, bestCount |-> 0]
     ELSE [bestNum |-> safeToExclude[first], bestCount |-> bestCount]

\* The while loop of findMinimalExclusionSet.
RECURSIVE greedyExclusions(_, _, _, _)
greedyExclusions(nonWinningPlates, safeToExclude, excluded, blockedPlates) ==
  IF ~(Cardinality(blockedPlates) < Len(nonWinningPlates)) THEN excluded
  ELSE LET best == bestExclusion(nonWinningPlates, safeToExclude,
                                 excluded, blockedPlates)
       IN IF best.bestNum = -1 \/ best.bestCount = 0 THEN excluded
          ELSE greedyExclusions(
                 nonWinningPlates, safeToExclude,
                 Append(excluded, best.bestNum),
                 blockedPlates
                   \cup platesWithNumber(nonWinningPlates, best.bestNum))

findMinimalExclusionSet(nonWinningPlates, safeToExclude) ==
  IF Len(nonWinningPlates) = 0 THEN << >>
  ELSE IF Len(safeToExclude) = 0 THEN << >>
  ELSE greedyExclusions(nonWinningPlates, safeToExclude, << >>, { })

\* analysis holds the four counts the code prints into its lines.
calculateExcludedNumbers(ps, winningPlateIds) ==
  LET winningPlates == winningPlatesOf(ps, winningPlateIds)
      nonWinningPlates == nonWinningPlatesOf(ps, winningPlateIds)
      winningNumbers == numbersOnPlates(winningPlates)
      nonWinningNumbers == numbersOnPlates(nonWinningPlates)
      safeToExclude == safeToExcludeOf(nonWinningNumbers, winningNumbers)
      excludedNumbers ==
        sortAscending(findMinimalExclusionSet(nonWinningPlates, safeToExclude))
  IN [excludedNumbers |-> excludedNumbers,
      analysis |-> << Len(winningNumbers), Len(nonWinningNumbers),
                      Len(safeToExclude), Len(excludedNumbers) >>]

(***************************************************************************)
(* prankCalculator.ts: generatePrankPlates and findOptimalWinningPlates.   *)
(* generatePlates is taken by what it returns: a list of totalPlates valid *)
(* plates with pairwise different hashes, or an error. The lists are built *)
(* from GridLists, the ids from the clock values of ClockRuns.             *)
(***************************************************************************)
MaxTotalPlates == 4
prankMaxAttempts == 100

GridLists ==
  { << GridA >>,
    << GridA, GridB >>,
    << GridA, GridD >>,
    << GridA, GridB, GridC >>,
    << GridA, GridB, GridC, GridD >>,
    << GridD, GridC, GridB, GridA >> }

\* Date.now() at the creation of each plate of a batch: a new value for
\* every plate, or the same value for the first two.
ClockRuns == { << 0, 1, 2, 3 >>, << 0, 0, 1, 2 >> }

stampPlates(grids, run) ==
  LET fraction == CHOOSE f \in RandomFractions : Len(f) > 0
  IN [i \in 1..Len(grids) |->
        makePlate(generatePlateId(run[i], fraction), grids[i])]

generatePlatesReturns(n) ==
  { ps \in { stampPlates(grids, run) :
               grids \in { g \in GridLists : Len(g) = n }, run \in ClockRuns } :
      /\ \A i \in 1..Len(ps) : validatePlate(ps[i]).isValid
      /\ validatePlatesUniqueness(ps).isValid }

generatePlatesThrows(n) ==
  { generatePlateThrows }
    \cup { << "Could only generate", k, "unique plates out of", n, "requested" >> :
             k \in 0..(n - 1) }

\* The three checks at the head of generatePrankPlates, in their order.
configError(cfg) ==
  IF cfg.winningPlatesCount > cfg.totalPlates
  THEN << "Winning plates count cannot exceed total plates" >>
  ELSE IF cfg.winningPlatesCount <= 0
  THEN << "Must have at least one winning plate for prank mode" >>
  ELSE IF cfg.totalPlates <= 0
  THEN << "Must generate at least one plate" >>
  ELSE NoError

\* [...plates].sort(() => Math.random() - 0.5).slice(0, winningCount): the
\* first winningCount plates of some permutation of the plates.
candidateSelections(n, winningCount) ==
  LET k == IF winningCount < n THEN winningCount ELSE n
  IN { sel \in [1..k -> 1..n] :
         \A i, j \in 1..k : i # j => sel[i] # sel[j] }

\* candidateWinners.map(p => p.id), for every selection.
candidateWinnerIdsOf(ps, winningCount) ==
  { [i \in 1..Len(sel) |-> ps[sel[i]].id] :
      sel \in candidateSelections(Len(ps), winningCount) }

scoreOf(len) ==
  IF len > 0 THEN (IF len <= 20 THEN 100 - len ELSE 50 - len) ELSE 0 - 1000

\* A faulty variant of the early break that never stops the loop.
stopsEarlyNever(len) == FALSE

stopsEarly(len) == len >= 5 /\ len <= 15

markWinning(ps, winningPlateIds) ==
  [i \in 1..Len(ps) |->
     [id |-> ps[i].id, grid |-> ps[i].grid, numbers |-> ps[i].numbers,
      isWinning |-> ps[i].id \in Range(winningPlateIds)]]

\* A faulty variant of the fallback that takes the last winningCount
\* plates.
fallbackResultLast(ps, winningCount) ==
  [winningPlateIds |->
     [i \in 1..winningCount |-> ps[Len(ps) - winningCount + i].id],
   excludedNumbers |-> << >>]

\* bestResult || { plates.slice(0, winningCount).map(p => p.id), [] }
fallbackResult(ps, winningCount) ==
  [winningPlateIds |-> [i \in 1..winningCount |-> ps[i].id],
   excludedNumbers |-> << >>]

\* What generatePrankPlates returns for the plates and the result of the
\* search.
prankResultOf(cfg, ps, found) ==
  [plates |-> markWinning(ps, found.winningPlateIds),
   winningPlateIds |-> found.winningPlateIds,
   excludedNumbers |-> found.excludedNumbers,
   summary |-> [totalPlates |-> cfg.totalPlates,
                winningPlates |-> cfg.winningPlatesCount,
                numbersToExclude |-> found.excludedNumbers]]

\* A faulty variant of the shuffle that sorts plates itself, not a copy:
\* the selected plates come first, the others after them.
platesShuffledInPlace(ps, sel) ==
  LET rest == SelectSeq([i \in 1..Len(ps) |-> i],
                        LAMBDA i : \A j \in 1..Len(sel) : sel[j] # i)
      order == sel \o rest
  IN [i \in 1..Len(ps) |-> ps[order[i]]]

\* plates after [...plates].sort(() => Math.random() - 0.5): the copy is
\* shuffled, plates itself keeps its order.
platesAfterShuffle(ps, sel) == ps

\* A trial whose exclusion list is not empty and hits every plate whose id
\* is not a winning id.
isFeasible(ps, winningPlateIds, excludedNumbers) ==
  /\ excludedNumbers # << >>
  /\ \A i \in 1..Len(ps) :
       ps[i].id \notin Range(winningPlateIds) =>
         Range(ps[i].numbers) \cap Range(excludedNumbers) # { }

PrankInit ==
  /\ ValIdle
  /\ PlateIdle
  /\ BatchIdle
  /\ PrankIdle
  /\ ComposableIdle
  /\ DraftIdle
  /\ LookupIdle
  /\ OverlapIdle

\* generatePrankPlates is called: the checks of the configuration.
CallGeneratePrankPlates ==
  /\ prankPc = "idle"
  /\ \E total \in (0 - 1)..MaxTotalPlates, winning \in (0 - 1)..MaxTotalPlates :
       LET cfg == [totalPlates |-> total, winningPlatesCount |-> winning]
       IN /\ config' = cfg
          /\ prankError' = configError(cfg)
          /\ prankPc' = IF configError(cfg) # NoError THEN "thrown" ELSE "generate"
  /\ UNCHANGED << prankPlates, prankAttempt, bestScore, bestResult,
                  prankResult, batchCalls, exclusions, feasibleSeen,
                  triedLengths, lastLength >>
  /\ PrankOnly

\* const plates = generatePlates(config.totalPlates)
PrankGeneratePlates ==
  /\ prankPc = "generate"
  /\ batchCalls' = batchCalls + 1
  /\ \E ps \in generatePlatesReturns(config.totalPlates) :
       /\ prankPlates' = ps
       /\ exclusions' =
            [ids \in candidateWinnerIdsOf(ps, config.winningPlatesCount) |->
               calculateExcludedNumbers(ps, ids)]
  /\ prankPc' = "search"
  /\ prankAttempt' = 0
  /\ bestScore' = 0 - 1
  /\ bestResult' = NoBest
  /\ UNCHANGED << config, prankResult, prankError, feasibleSeen,
                  triedLengths, lastLength >>
  /\ PrankOnly

\* generatePlates throws and generatePrankPlates lets the error through.
PrankGeneratePlatesThrows ==
  /\ prankPc = "generate"
  /\ batchCalls' = batchCalls + 1
  /\ \E err \in generatePlatesThrows(config.totalPlates) : prankError' = err
  /\ prankPc' = "thrown"
  /\ UNCHANGED << config, prankPlates, prankAttempt, bestScore, bestResult,
                  prankResult, exclusions, feasibleSeen,
                  triedLengths, lastLength >>
  /\ PrankOnly

\* One pass of the for loop of findOptimalWinningPlates.
TryWinningPlates ==
  /\ prankPc = "search"
  /\ prankAttempt < prankMaxAttempts
  /\ \E sel \in candidateSelections(Len(prankPlates), config.winningPlatesCount) :
       LET candidateWinnerIds == [i \in 1..Len(sel) |-> prankPlates[sel[i]].id]
           result == exclusions[candidateWinnerIds]
           len == Len(result.excludedNumbers)
           score == scoreOf(len)
       IN /\ prankPlates' = platesAfterShuffle(prankPlates, sel)
          /\ IF score > bestScore
             THEN /\ bestScore' = score
                  /\ bestResult' =
                       [winningPlateIds |-> candidateWinnerIds,
                        excludedNumbers |-> result.excludedNumbers]
             ELSE UNCHANGED << bestScore, bestResult >>
          /\ IF stopsEarly(len)
             THEN /\ prankPc' = "chosen"
                  /\ UNCHANGED prankAttempt
             ELSE /\ prankPc' = "search"
                  /\ prankAttempt' = prankAttempt + 1
          /\ triedLengths' = triedLengths \cup { len }
          /\ lastLength' = len
          /\ feasibleSeen' =
               (feasibleSeen
                  \/ isFeasible(prankPlates, candidateWinnerIds,
                                result.excludedNumbers))
  /\ UNCHANGED << config, prankResult, prankError, batchCalls, exclusions >>
  /\ PrankOnly

\* The loop is over: bestResult or the fallback, the plates marked, the
\* result returned.
ReturnPrankResult ==
  /\ \/ prankPc = "chosen"
     \/ prankPc = "search" /\ ~(prankAttempt < prankMaxAttempts)
  /\ LET found ==
           IF bestResult # NoBest THEN bestResult
           ELSE fallbackResult(prankPlates, config.winningPlatesCount)
     IN prankResult' = prankResultOf(config, prankPlates, found)
  /\ prankPc' = "returned"
  /\ UNCHANGED << config, prankPlates, prankAttempt, bestScore, bestResult,
                  prankError, batchCalls, exclusions, feasibleSeen,
                  triedLengths, lastLength >>
  /\ PrankOnly

PrankNext ==
  \/ CallGeneratePrankPlates
  \/ PrankGeneratePlates
  \/ PrankGeneratePlatesThrows
  \/ TryWinningPlates
  \/ ReturnPrankResult

SpecPrank == PrankInit /\ [][PrankNext]_vars

PrankConfigInRange ==
  /\ config.winningPlatesCount >= 1
  /\ config.winningPlatesCount < config.totalPlates

\* C1: a result returned for 1 <= winningPlatesCount < totalPlates has an
\* empty excludedNumbers, or every plate whose id is not in winningPlateIds
\* has at least one of its numbers in excludedNumbers.
C1_NonWinnersBlockedOrEmpty ==
  (prankPc = "returned" /\ PrankConfigInRange) =>
    \/ prankResult.excludedNumbers = << >>
    \/ \A i \in 1..Len(prankResult.plates) :
         prankResult.plates[i].id \notin Range(prankResult.winningPlateIds) =>
           Range(prankResult.plates[i].numbers)
             \cap Range(prankResult.excludedNumbers) # { }

\* The numbers on the plates whose id is, or is not, among ids.
numbersOfWinners(ps, ids) ==
  UNION { Range(ps[i].numbers) : i \in { j \in 1..Len(ps) : ps[j].id \in Range(ids) } }

numbersOfOthers(ps, ids) ==
  UNION { Range(ps[i].numbers) : i \in { j \in 1..Len(ps) : ps[j].id \notin Range(ids) } }

\* Lists of winning ids: up to two ids, of plates of the batch or of none.
WinningIdLists(ps) ==
  LET ids == { ps[i].id : i \in 1..Len(ps) } \cup { << 9, << "z" >> >> }
  IN { << >> } \cup { << a >> : a \in ids } \cup { << a, b >> : a, b \in ids }

\* C2: every number calculateExcludedNumbers returns is on a non-winning
\* plate and on no winning plate, for the plates of a batch and any list
\* of winning ids; so no winning plate of a result of generatePrankPlates
\* has an excluded number.
C2_ExcludedOnlyOnNonWinners ==
  /\ (prankPc = "search" /\ prankAttempt = 0) =>
       \A ids \in WinningIdLists(prankPlates) :
         Range(calculateExcludedNumbers(prankPlates, ids).excludedNumbers)
           \subseteq numbersOfOthers(prankPlates, ids)
                       \ numbersOfWinners(prankPlates, ids)
  /\ bestResult # NoBest =>
       Range(bestResult.excludedNumbers)
         \subseteq numbersOfOthers(prankPlates, bestResult.winningPlateIds)
                     \ numbersOfWinners(prankPlates, bestResult.winningPlateIds)
  /\ prankPc = "returned" =>
       \A i \in 1..Len(prankResult.plates) :
         (\/ prankResult.plates[i].isWinning
          \/ prankResult.plates[i].id \in Range(prankResult.winningPlateIds)) =>
           Range(prankResult.plates[i].numbers)
             \cap Range(prankResult.excludedNumbers) = { }

\* C2 witness: a result with two winning plates and a non-empty
\* excludedNumbers, among plates that share numbers.
C2_Witness ==
  /\ prankPc = "returned"
  /\ Len(prankResult.excludedNumbers) >= 2
  /\ Cardinality({ i \in 1..Len(prankResult.plates) :
                     prankResult.plates[i].isWinning }) = 2
  /\ numbersOfWinners(prankPlates, prankResult.winningPlateIds)
       \cap numbersOfOthers(prankPlates, prankResult.winningPlateIds) # { }

\* C7: a configuration with winningPlatesCount <= 0, winningPlatesCount >=
\* totalPlates or totalPlates <= 0 makes generatePrankPlates throw, and
\* generatePlates is not called.
C7_InvalidConfigRejected ==
  (/\ prankPc # "idle"
   /\ \/ config.winningPlatesCount <= 0
      \/ config.winningPlatesCount >= config.totalPlates
      \/ config.totalPlates <= 0) =>
    /\ prankPc = "thrown"
    /\ batchCalls = 0

\* The ids of the first winningPlatesCount plates of the batch, in batch
\* order.
firstWinnerIds ==
  [i \in 1..config.winningPlatesCount |-> prankPlates[i].id]

SearchOver ==
  \/ prankPc = "chosen"
  \/ prankPc = "search" /\ prankAttempt = prankMaxAttempts

\* C11: when the search kept no trial, generatePrankPlates throws nothing
\* and returns the ids of the first winningPlatesCount plates, in batch
\* order, with an empty excludedNumbers; and a returned result with an
\* empty excludedNumbers has exactly those ids as winningPlateIds.
C11_FallbackFirstWinners ==
  /\ [](prankPc = "returned" =>
          /\ bestResult = NoBest =>
               /\ prankResult.winningPlateIds = firstWinnerIds
               /\ prankResult.excludedNumbers = << >>
          /\ (prankResult.excludedNumbers = << >>
                /\ config.winningPlatesCount > 0) =>
               /\ prankResult.winningPlateIds = firstWinnerIds
               /\ \A i \in 1..config.winningPlatesCount :
                    prankResult.plates[i].isWinning)
  /\ [][(SearchOver /\ bestResult = NoBest) =>
          (prankPc' = "returned" /\ prankError' = NoError)]_vars

\* C11 witness: all 100 passes of the search had an empty exclusion list,
\* with fewer winners than plates, and the fallback was returned.
C11_Witness ==
  /\ prankPc = "returned"
  /\ prankAttempt = prankMaxAttempts
  /\ bestResult = NoBest
  /\ PrankConfigInRange
  /\ prankResult.winningPlateIds = firstWinnerIds

\* C12: a result for 1 <= winningPlatesCount < totalPlates has exactly
\* winningPlatesCount winning ids, pairwise different, each the id of a
\* plate of the batch; a plate is marked isWinning exactly when its id is
\* a winning id, so winningPlatesCount plates are marked and the others
\* are not; the summary agrees with winningPlateIds and excludedNumbers.
C12_WinnersCountedAndMarked ==
  (prankPc = "returned" /\ PrankConfigInRange) =>
    LET W == prankResult.winningPlateIds
        ps == prankResult.plates
        marked == { i \in 1..Len(ps) : ps[i].isWinning }
    IN /\ Len(W) = config.winningPlatesCount
       /\ \A i, j \in 1..Len(W) : i # j => W[i] # W[j]
       /\ \A i \in 1..Len(W) : \E j \in 1..Len(ps) : ps[j].id = W[i]
       /\ \A i \in 1..Len(ps) : ps[i].isWinning <=> ps[i].id \in Range(W)
       /\ Cardinality(marked) = config.winningPlatesCount
       /\ Len(ps) - Cardinality(marked)
            = config.totalPlates - config.winningPlatesCount
       /\ prankResult.summary.winningPlates = Len(W)
       /\ prankResult.summary.numbersToExclude = prankResult.excludedNumbers

\* C13: when some pass of the search was feasible (a non-empty exclusion
\* list that hits every non-winning plate), the result returned is
\* feasible: it is not an infeasible trial and not the fallback.
C13_FeasibleTrialKept ==
  (prankPc = "returned" /\ feasibleSeen) =>
    isFeasible(prankPlates, prankResult.winningPlateIds,
               prankResult.excludedNumbers)

\* C14: with a single non-winning plate (winningPlatesCount = totalPlates
\* - 1) the result has an empty excludedNumbers, or no winning plate has
\* an excluded number and the non-winning plate has at least one.
C14_SingleNonWinnerPartition ==
  (/\ prankPc = "returned"
   /\ config.winningPlatesCount >= 1
   /\ config.winningPlatesCount = config.totalPlates - 1) =>
    \/ prankResult.excludedNumbers = << >>
    \/ \A i \in 1..Len(prankResult.plates) :
         LET p == prankResult.plates[i]
             hit == Range(p.numbers) \cap Range(prankResult.excludedNumbers)
         IN /\ p.id \in Range(prankResult.winningPlateIds) => hit = { }
            /\ p.id \notin Range(prankResult.winningPlateIds) => hit # { }
            /\ p.isWinning => hit = { }
            /\ ~p.isWinning => hit # { }

\* C14 witness: three plates that share numbers, two winners, and a
\* non-empty excludedNumbers.
C14_Witness ==
  /\ prankPc = "returned"
  /\ config.totalPlates = 3
  /\ config.winningPlatesCount = 2
  /\ prankResult.excludedNumbers # << >>
  /\ \E i \in 1..Len(prankResult.plates) : ~prankResult.plates[i].isWinning

\* Every pass of the while loop of findMinimalExclusionSet, started from
\* (excluded, blockedPlates), adds the lowest of the open numbers that
\* block the highest count of plates not blocked so far.
RECURSIVE lowestOfTiesAdded(_, _, _, _)
lowestOfTiesAdded(nonWinningPlates, safeToExclude, excluded, blockedPlates) ==
  IF ~(Cardinality(blockedPlates) < Len(nonWinningPlates)) THEN TRUE
  ELSE LET best == bestExclusion(nonWinningPlates, safeToExclude,
                                 excluded, blockedPlates)
           ties == { num \in Range(safeToExclude) \ Range(excluded) :
                       Cardinality(platesWithNumber(nonWinningPlates, num)
                                     \ blockedPlates) = best.bestCount }
       IN IF best.bestNum = -1 \/ best.bestCount = 0 THEN TRUE
          ELSE /\ \A num \in ties : best.bestNum <= num
               /\ lowestOfTiesAdded(
                    nonWinningPlates, safeToExclude,
                    Append(excluded, best.bestNum),
                    blockedPlates
                      \cup platesWithNumber(nonWinningPlates, best.bestNum))

\* C15: in every greedy step of findMinimalExclusionSet, for the plates of
\* a batch in any order and every selection of winners, the number added
\* is the lowest of the safe numbers that block the highest count of
\* plates not blocked so far.
C15_LowestNumberBreaksTies ==
  (prankPc = "search" /\ prankAttempt = 0) =>
    \A ids \in candidateWinnerIdsOf(prankPlates, config.winningPlatesCount) :
      LET nonWinningPlates == nonWinningPlatesOf(prankPlates, ids)
          safeToExclude ==
            safeToExcludeOf(numbersOnPlates(nonWinningPlates),
                            numbersOnPlates(winningPlatesOf(prankPlates, ids)))
      IN lowestOfTiesAdded(nonWinningPlates, safeToExclude, << >>, { })

reversed(s) == [i \in 1..Len(s) |-> s[Len(s) + 1 - i]]

\* C16: for the plates of a batch, calculateExcludedNumbers returns one
\* excludedNumbers per set of winning ids: the call made when the batch
\* was searched and a later call return the same list, and a list of
\* winning ids in another order, or with an id twice, returns the same
\* list too; the excludedNumbers of a result is what a new call returns
\* for its winning ids in either order.
C16_ExclusionsDeterministic ==
  /\ (prankPc = "search" /\ prankAttempt = 0) =>
       /\ \A ids \in DOMAIN exclusions :
            /\ calculateExcludedNumbers(prankPlates, ids) = exclusions[ids]
            /\ calculateExcludedNumbers(prankPlates, reversed(ids)).excludedNumbers
                 = exclusions[ids].excludedNumbers
       /\ \A ids \in WinningIdLists(prankPlates) :
            Len(ids) = 2 =>
              /\ calculateExcludedNumbers(prankPlates, ids).excludedNumbers
                   = calculateExcludedNumbers(prankPlates, reversed(ids)).excludedNumbers
              /\ ids[1] = ids[2] =>
                   calculateExcludedNumbers(prankPlates, ids).excludedNumbers
                     = calculateExcludedNumbers(prankPlates, << ids[1] >>).excludedNumbers
  /\ (prankPc = "returned" /\ bestResult # NoBest) =>
       /\ calculateExcludedNumbers(prankPlates, prankResult.winningPlateIds).excludedNumbers
            = prankResult.excludedNumbers
       /\ calculateExcludedNumbers(prankPlates,
                                   reversed(prankResult.winningPlateIds)).excludedNumbers
            = prankResult.excludedNumbers

\* C16 witness: a result with two different winning ids and a non-empty
\* excludedNumbers, which a new call with the ids in the other order
\* returns again.
C16_Witness ==
  /\ prankPc = "returned"
  /\ bestResult # NoBest
  /\ Len(prankResult.winningPlateIds) = 2
  /\ prankResult.winningPlateIds[1] # prankResult.winningPlateIds[2]
  /\ prankResult.excludedNumbers # << >>
  /\ calculateExcludedNumbers(prankPlates,
                              reversed(prankResult.winningPlateIds)).excludedNumbers
       = prankResult.excludedNumbers

\* A plate without its isWinning flag.
unmarked(p) == [id |-> p.id, grid |-> p.grid, numbers |-> p.numbers]

\* C19: once generatePlates has returned the batch, no pass of the search
\* and no marking changes the batch: the plates keep their id, grid and
\* numbers and their order; the plates of the result are the plates of
\* the batch, in the same order, with nothing but isWinning added; and
\* the winning ids of the result are the list the kept pass selected.
C19_OnlyIsWinningChanges ==
  /\ [][(prankPc \in {"search", "chosen"}) => (prankPlates' = prankPlates)]_vars
  /\ [](prankPc = "returned" =>
          /\ Len(prankResult.plates) = Len(prankPlates)
          /\ \A i \in 1..Len(prankPlates) :
               /\ unmarked(prankResult.plates[i]) = prankPlates[i]
               /\ DOMAIN prankResult.plates[i]
                    = DOMAIN prankPlates[i] \cup {"isWinning"}
          /\ bestResult # NoBest =>
               prankResult.winningPlateIds = bestResult.winningPlateIds)
  /\ [][bestResult' # bestResult =>
          (bestResult'.winningPlateIds
             \in candidateWinnerIdsOf(prankPlates, config.winningPlatesCount))]_vars

\* C19 witness: a result after 100 passes that selected plates other than
\* the first ones, with a winning and a non-winning plate.
C19_Witness ==
  /\ prankPc = "returned"
  /\ prankAttempt = prankMaxAttempts
  /\ bestResult # NoBest
  /\ Len(prankPlates) >= 3
  /\ prankResult.winningPlateIds[1] = prankPlates[Len(prankPlates)].id
  /\ \E i, j \in 1..Len(prankResult.plates) :
       prankResult.plates[i].isWinning /\ ~prankResult.plates[j].isWinning

occurrences(s, v) == Cardinality({ i \in 1..Len(s) : s[i] = v })

sameMultiset(s, t) ==
  /\ Len(s) = Len(t)
  /\ \A v \in Range(s) \cup Range(t) : occurrences(s, v) = occurrences(t, v)

strictlyAscending(s) == \A i \in 1..(Len(s) - 1) : s[i] < s[i + 1]

\* C17: the numbers of every plate attemptPlateGeneration builds are the
\* non-empty cells of its grid, each as often as in the grid, in ascending
\* order; the numbers of a plate generatePlate returns are 15, strictly
\* ascending, and flattening its grid and sorting gives numbers back.
C17_NumbersAreSortedGridCells ==
  /\ plate # NoPlate =>
       /\ sameMultiset(plate.numbers, gridNumbersOf(plate.grid))
       /\ \A i \in 1..(Len(plate.numbers) - 1) :
            plate.numbers[i] <= plate.numbers[i + 1]
  /\ platePc = "returned" =>
       /\ Len(plate.numbers) = TOTAL_NUMBERS
       /\ strictlyAscending(plate.numbers)
       /\ sameMultiset(plate.numbers, gridNumbersOf(plate.grid))
       /\ sortAscending(gridNumbersOf(plate.grid)) = plate.numbers
       /\ sortAscending(plate.numbers) = plate.numbers

\* C17 witness: a returned plate whose grid, read row by row, is not in
\* ascending order.
C17_Witness ==
  /\ platePc = "returned"
  /\ ~strictlyAscending(gridNumbersOf(plate.grid))
  /\ Len(plate.numbers) = TOTAL_NUMBERS

\* C18: a call of validatePlate leaves the id, the grid and the numbers of
\* the plate as they were, the order of numbers included; a second call
\* on the same plate returns the same isValid and the same errors as the
\* first; for a plate that was accepted the second call returns isValid
\* = TRUE and no errors.
C18_ValidatePureIdempotent ==
  /\ [][(validations' > validations) => (card' = card)]_vars
  /\ [][(validations' > validations /\ validations >= 1) =>
          (validation' = validation)]_vars
  /\ [][(validations' > validations /\ validations >= 1 /\ validation.isValid) =>
          (validation'.isValid /\ validation'.errors = << >>)]_vars
  /\ [](validations >= 1 => validation = validatePlate(card))

\* C18 witness: an accepted plate whose numbers are not in ascending
\* order, validated twice.
C18_Witness ==
  /\ validations >= 2
  /\ validation.isValid
  /\ validation.errors = << >>
  /\ card.numbers # sortAscending(card.numbers)

(***************************************************************************)
(* useExporter.ts useBankoGenerator: the refs isGenerating,                *)
(* generationResult and error, and the methods generateNormalPlates,       *)
(* generatePrankPlatesWithAnalysis and clearResult. A method runs up to    *)
(* its await, and goes on when the timer has fired. The page calls a       *)
(* method when the form is submitted, and the submit button of the form    *)
(* is disabled while isGenerating, so one call is in hand at a time; the   *)
(* methods themselves do not look at isGenerating. The arguments are any   *)
(* count and any configuration. generatePlates and generatePrankPlates     *)
(* are taken by what they return or throw; error.value = null is NoError.  *)
(***************************************************************************)

\* generatePlates(n): the error of its first check, or those of its loop.
composableGeneratePlatesThrows(n) ==
  IF n <= 0 THEN { << "Count must be positive" >> } ELSE generatePlatesThrows(n)

\* findOptimalWinningPlates(ps, winningCount): a selection kept by a pass
\* (its score is above -1), or the fallback when some selection is not
\* kept.
findOptimalWinningPlatesReturns(ps, winningCount) ==
  LET tried == { [winningPlateIds |-> ids,
                  excludedNumbers |->
                    calculateExcludedNumbers(ps, ids).excludedNumbers] :
                   ids \in candidateWinnerIdsOf(ps, winningCount) }
      kept == { t \in tried : scoreOf(Len(t.excludedNumbers)) > 0 - 1 }
  IN kept \cup (IF tried \ kept # { }
                THEN { fallbackResult(ps, winningCount) } ELSE { })

generatePrankPlatesThrows(cfg) ==
  IF configError(cfg) # NoError THEN { configError(cfg) }
  ELSE composableGeneratePlatesThrows(cfg.totalPlates)

generatePrankPlatesReturns(cfg) ==
  IF configError(cfg) # NoError THEN { }
  ELSE UNION { { prankResultOf(cfg, ps, found) :
                   found \in findOptimalWinningPlatesReturns(
                               ps, cfg.winningPlatesCount) } :
               ps \in generatePlatesReturns(cfg.totalPlates) }

\* The generationResult generateNormalPlates builds from the plates.
normalResultOf(ps, n) ==
  [plates |-> ps, winningPlateIds |-> << >>, excludedNumbers |-> << >>,
   summary |-> [totalPlates |-> n, winningPlates |-> 0,
                numbersToExclude |-> << >>]]

\* A faulty variant of errorMessageOf that always takes the default text.
errorMessageDefault(err, fallback) == fallback

\* err instanceof Error ? err.message : fallback. Every value the
\* generator throws is an Error with its message.
errorMessageOf(err, fallback) == IF Len(err) > 0 THEN err ELSE fallback

ComposableConfigs ==
  { [totalPlates |-> total, winningPlatesCount |-> winning] :
      total \in (0 - 1)..MaxCount, winning \in (0 - 1)..MaxCount }

ComposableInit ==
  /\ ValIdle
  /\ PlateIdle
  /\ BatchIdle
  /\ PrankIdle
  /\ ComposableIdle
  /\ DraftIdle
  /\ LookupIdle
  /\ OverlapIdle

\* The submit button of the form: :disabled="!isFormValid || props.isLoading",
\* with :is-loading="isGenerating" on the page.
submitEnabled == ~isGenerating

\* The head of both methods: isGenerating.value = true; error.value =
\* null; then the await of the timer.
callStarted(call) ==
  /\ genCall' = call
  /\ isGenerating' = TRUE
  /\ error' = NoError
  /\ genPc' = "waiting"
  /\ promise' = [state |-> "pending", value |-> << >>]
  /\ thrown' = NoError
  /\ UNCHANGED generationResult
  /\ UNCHANGED overlapVars
  /\ ComposableOnly

\* handleGenerate of the page: generateNormalPlates(config.totalPlates).
CallGenerateNormalPlates ==
  /\ submitEnabled
  /\ \E n \in (0 - 1)..MaxCount :
       callStarted([kind |-> "normal", count |-> n, config |-> NoConfig])

\* handleGenerate of the page: generatePrankPlatesWithAnalysis(config).
CallGeneratePrankPlatesWithAnalysis ==
  /\ submitEnabled
  /\ \E cfg \in ComposableConfigs :
       callStarted([kind |-> "prank", count |-> 0, config |-> cfg])

\* The catch and the finally block: the message in error, no result, the
\* promise fulfilled with null (or undefined), isGenerating false.
callFailed(err, fallback) ==
  /\ thrown' = err
  /\ error' = errorMessageOf(err, fallback)
  /\ generationResult' = nullResult
  /\ promise' = [state |-> "fulfilled", value |-> << >>]
  /\ isGenerating' = FALSE
  /\ genPc' = "idle"
  /\ UNCHANGED genCall
  /\ UNCHANGED overlapVars
  /\ ComposableOnly

\* The end of the try block and the finally block.
callSucceeded(result, value) ==
  /\ generationResult' = result
  /\ promise' = [state |-> "fulfilled", value |-> value]
  /\ isGenerating' = FALSE
  /\ genPc' = "idle"
  /\ UNCHANGED << error, genCall, thrown >>
  /\ UNCHANGED overlapVars
  /\ ComposableOnly

\* generateNormalPlates after the await.
ResumeGenerateNormalPlates ==
  /\ genPc = "waiting"
  /\ genCall.kind = "normal"
  /\ \/ \E ps \in generatePlatesReturns(genCall.count) :
          callSucceeded(normalResultOf(ps, genCall.count), ps)
     \/ \E err \in composableGeneratePlatesThrows(genCall.count) :
          callFailed(err, << "Failed to generate plates" >>)

\* generatePrankPlatesWithAnalysis after the await.
ResumeGeneratePrankPlatesWithAnalysis ==
  /\ genPc = "waiting"
  /\ genCall.kind = "prank"
  /\ \/ \E result \in generatePrankPlatesReturns(genCall.config) :
          callSucceeded(result, << >>)
     \/ \E err \in generatePrankPlatesThrows(genCall.config) :
          callFailed(err, << "Failed to generate prank plates" >>)

ClearResult ==
  /\ generationResult' = nullResult
  /\ error' = NoError
  /\ UNCHANGED << isGenerating, genPc, genCall, promise, thrown >>
  /\ UNCHANGED overlapVars
  /\ ComposableOnly

ComposableNext ==
  \/ CallGenerateNormalPlates
  \/ CallGeneratePrankPlatesWithAnalysis
  \/ ResumeGenerateNormalPlates
  \/ ResumeGeneratePrankPlatesWithAnalysis
  \/ ClearResult

SpecComposable == ComposableInit /\ [][ComposableNext]_vars

callEnds == genPc = "waiting" /\ genPc' = "idle"

\* C20: when the generator throws inside generateNormalPlates or
\* generatePrankPlatesWithAnalysis, the promise of the call is fulfilled,
\* not rejected, error is the message thrown, generationResult is null and
\* isGenerating is false; when the generator returns, generationResult is
\* the result, error is null as the call set it, and isGenerating is
\* false. isGenerating is true exactly while a call waits.
C20_FailureCaughtAndReported ==
  /\ [][callEnds =>
          /\ promise'.state = "fulfilled"
          /\ isGenerating' = FALSE
          /\ thrown' # NoError =>
               /\ error' = thrown'
               /\ generationResult' = nullResult
               /\ promise'.value = << >>
               /\ thrown' \in
                    (IF genCall.kind = "normal"
                     THEN composableGeneratePlatesThrows(genCall.count)
                     ELSE generatePrankPlatesThrows(genCall.config))
          /\ thrown' = NoError =>
               /\ error' = NoError
               /\ generationResult' # nullResult
               /\ Len(generationResult'.plates) >= 1
               /\ genCall.kind = "normal" =>
                    generationResult' = normalResultOf(promise'.value,
                                                       genCall.count)
               /\ genCall.kind = "prank" =>
                    generationResult'
                      \in generatePrankPlatesReturns(genCall.config)]_vars
  /\ [](promise.state # "rejected")
  /\ [](isGenerating <=> genPc = "waiting")
  /\ [](isGenerating => error = NoError)

\* C20 witness: a call of generatePrankPlatesWithAnalysis has ended on an
\* incomplete batch.
C20_Witness ==
  /\ genPc = "idle"
  /\ genCall.kind = "prank"
  /\ thrown # NoError
  /\ thrown[1] = "Could only generate"
  /\ error = thrown
  /\ generationResult = nullResult
  /\ ~isGenerating
  /\ promise.state = "fulfilled"

\* The safeToExclude list calculateExcludedNumbers hands to
\* findMinimalExclusionSet for the winning ids.
safeToExcludeFor(ps, ids) ==
  safeToExcludeOf(numbersOnPlates(nonWinningPlatesOf(ps, ids)),
                  numbersOnPlates(winningPlatesOf(ps, ids)))

\* Every pass of the while loop of findMinimalExclusionSet, from
\* (excluded, blockedPlates) on: the number added is a safe number not
\* added before, it blocks at least one plate not blocked so far and no
\* open number blocks more, and the set of blocked plates grows; the loop
\* stops only when all plates are blocked or no open number blocks one.
RECURSIVE greedyStepsSound(_, _, _, _)
greedyStepsSound(nonWinningPlates, safeToExclude, excluded, blockedPlates) ==
  IF ~(Cardinality(blockedPlates) < Len(nonWinningPlates)) THEN TRUE
  ELSE LET best == bestExclusion(nonWinningPlates, safeToExclude,
                                 excluded, blockedPlates)
           cover(num) ==
             Cardinality(platesWithNumber(nonWinningPlates, num) \ blockedPlates)
           open == Range(safeToExclude) \ Range(excluded)
           blockedNext ==
             blockedPlates \cup platesWithNumber(nonWinningPlates, best.bestNum)
       IN IF best.bestNum = -1 \/ best.bestCount = 0
          THEN \A num \in open : cover(num) = 0
          ELSE /\ best.bestNum \in open
               /\ cover(best.bestNum) >= 1
               /\ \A num \in open : cover(num) <= cover(best.bestNum)
               /\ Cardinality(blockedNext) > Cardinality(blockedPlates)
               /\ greedyStepsSound(nonWinningPlates, safeToExclude,
                                   Append(excluded, best.bestNum), blockedNext)

C22_UnblockedIffUnblockable ==
  (prankPc = "search" /\ prankAttempt = 0) =>
    \A ids \in DOMAIN exclusions :
      LET excluded == Range(exclusions[ids].excludedNumbers)
          winNums == numbersOfWinners(prankPlates, ids)
      IN \A i \in 1..Len(prankPlates) :
           prankPlates[i].id \notin Range(ids) =>
             (Range(prankPlates[i].numbers) \cap excluded = { }
                <=> Range(prankPlates[i].numbers) \subseteq winNums)

(***************************************************************************)
(* findOptimalWinningPlates on batches of six plates. GridF, GridG and     *)
(* GridH are GridA with 4, 5 and 6 in place of 1: with GridA as the        *)
(* winner each other plate needs a number of its own, so the exclusion     *)
(* list has 5 numbers and the early break of the loop is taken; with       *)
(* GridB as the winner the number 10 blocks every other plate. GridP to    *)
(* GridS are GridA with 2 for 1, 12 for 10 and 72 for 70: GridP has 2 and  *)
(* 12, GridQ has 2 and 72, GridR has 12 and GridS has 72.                  *)
(***************************************************************************)
GridF == setCell(GridA, 1, 1, 4)
GridG == setCell(GridA, 1, 1, 5)
GridH == setCell(GridA, 1, 1, 6)
GridP == setCell(setCell(GridA, 1, 1, 2), 1, 2, 12)
GridQ == setCell(setCell(GridA, 1, 1, 2), 3, 8, 72)
GridR == setCell(GridA, 1, 2, 12)
GridS == setCell(GridA, 3, 8, 72)

SearchGridLists ==
  { << GridA, GridD, GridF, GridG, GridH, GridB >>,
    << GridB, GridA, GridD, GridF, GridG, GridH >>,
    << GridA, GridP, GridQ, GridR, GridS >>,
    << GridA, GridB, GridC, GridD >> }

SearchClockRun == << 0, 1, 2, 3, 4, 5 >>

SearchBatches == { stampPlates(grids, SearchClockRun) : grids \in SearchGridLists }

SearchWinningCounts == { 1 }

SearchInit ==
  /\ ValIdle
  /\ PlateIdle
  /\ BatchIdle
  /\ PrankIdle
  /\ ComposableIdle
  /\ DraftIdle
  /\ LookupIdle
  /\ OverlapIdle

\* generatePrankPlates up to its call of findOptimalWinningPlates, for a
\* configuration that passes the checks and plates generatePlates returns.
CallFindOptimalWinningPlates ==
  /\ prankPc = "idle"
  /\ \E ps \in SearchBatches, winningCount \in SearchWinningCounts :
       /\ config' = [totalPlates |-> Len(ps), winningPlatesCount |-> winningCount]
       /\ prankPlates' = ps
       /\ exclusions' =
            [ids \in candidateWinnerIdsOf(ps, winningCount) |->
               calculateExcludedNumbers(ps, ids)]
  /\ batchCalls' = batchCalls + 1
  /\ prankPc' = "search"
  /\ prankAttempt' = 0
  /\ bestScore' = 0 - 1
  /\ bestResult' = NoBest
  /\ UNCHANGED << prankResult, prankError, feasibleSeen, triedLengths,
                  lastLength >>
  /\ PrankOnly

SearchNext ==
  \/ CallFindOptimalWinningPlates
  \/ TryWinningPlates
  \/ ReturnPrankResult

\* A loop that has started runs on: the passes and the return are taken.
SpecSearch ==
  /\ SearchInit
  /\ [][SearchNext]_vars
  /\ WF_vars(TryWinningPlates)
  /\ WF_vars(ReturnPrankResult)

maxOf(S) == CHOOSE m \in S : \A x \in S : x <= m

triedScores == { scoreOf(len) : len \in triedLengths }

\* C23: findOptimalWinningPlates runs no more than 100 passes and returns;
\* a pass whose exclusion list has 5 to 15 numbers is the last pass; the
\* result kept is one with the highest score of the passes run, and it is
\* replaced only by a pass with a higher score, so of passes with equal
\* score the earliest is kept.
C23_SearchStopsAndKeepsBest ==
  /\ [](prankAttempt <= prankMaxAttempts)
  /\ [](Cardinality(triedLengths) <= prankAttempt + 1)
  /\ (prankPc = "search") ~> (prankPc = "returned")
  /\ [](prankPc = "chosen" <=>
          (lastLength >= 5 /\ lastLength <= 15 /\ prankResult = NoPrankResult))
  /\ [](prankPc = "search" => \A len \in triedLengths : ~(len >= 5 /\ len <= 15))
  /\ [][(prankPc = "chosen") =>
          (prankPc' = "returned" /\ prankAttempt' = prankAttempt
             /\ triedLengths' = triedLengths /\ bestResult' = bestResult)]_vars
  /\ [](triedLengths # { } =>
          /\ bestScore = maxOf(triedScores \cup { 0 - 1 })
          /\ bestResult = NoBest <=> maxOf(triedScores) <= 0 - 1
          /\ bestResult # NoBest =>
               /\ scoreOf(Len(bestResult.excludedNumbers)) = maxOf(triedScores)
               /\ bestResult.winningPlateIds \in DOMAIN exclusions
               /\ exclusions[bestResult.winningPlateIds].excludedNumbers
                    = bestResult.excludedNumbers)
  /\ [][(bestResult' # bestResult /\ prankPc = "search") =>
          (scoreOf(Len(bestResult'.excludedNumbers)) > bestScore
             /\ scoreOf(lastLength') = bestScore')]_vars
  /\ [](prankPc = "returned" =>
          /\ bestResult # NoBest =>
               /\ prankResult.winningPlateIds = bestResult.winningPlateIds
               /\ prankResult.excludedNumbers = bestResult.excludedNumbers
          /\ (lastLength >= 5 /\ lastLength <= 15) \/ prankAttempt = prankMaxAttempts)

\* C23 witness: the loop stopped on its second pass, whose exclusion list
\* has 5 numbers, and returned the result of the first pass, which has a
\* higher score.
C23_Witness ==
  /\ prankPc = "returned"
  /\ prankAttempt = 1
  /\ lastLength = 5
  /\ Len(prankResult.excludedNumbers) = 1
  /\ triedLengths = { 1, 5 }

\* The sets of non-winning plates (by their place in the list) that the
\* numbers of safeToExclude are on, one set per number.
coversOf(nonWinningPlates, safeToExclude) ==
  { { i \in 1..Len(nonWinningPlates) : num \in Range(nonWinningPlates[i].numbers) } :
      num \in Range(safeToExclude) }

\* C24: for the plates of a batch and a selection of winners for which
\* every non-winning plate has a number that is on no winning plate, no
\* set of safe numbers with fewer elements than the list that
\* findMinimalExclusionSet returns is on every non-winning plate.
C24_ExclusionSetMinimal ==
  (prankPc = "search" /\ prankAttempt = 0) =>
    \A ids \in DOMAIN exclusions :
      LET nonWinningPlates == nonWinningPlatesOf(prankPlates, ids)
          safeToExclude == safeToExcludeFor(prankPlates, ids)
          covers == coversOf(nonWinningPlates, safeToExclude)
          excluded == findMinimalExclusionSet(nonWinningPlates, safeToExclude)
      IN (\A i \in 1..Len(nonWinningPlates) :
            Range(nonWinningPlates[i].numbers) \cap Range(safeToExclude) # { })
           => \A chosen \in SUBSET covers :
                Cardinality(chosen) < Len(excluded) =>
                  UNION chosen # 1..Len(nonWinningPlates)

(***************************************************************************)
(* sortColumnsAscending (plateGenerator.ts:225-259). For each column the   *)
(* entries are the cells that hold a number, from the top row down; the    *)
(* entries are sorted by value, their rows are sorted by index, and the    *)
(* i-th value goes back into the i-th row. A column of at most one entry   *)
(* is skipped.                                                             *)
(***************************************************************************)
entryRowsOf(grid, col) ==
  SelectSeq([row \in 1..ROWS |-> row], LAMBDA row : grid[row][col] # null)

\* A faulty variant of the write-back: the sorted values go into the top
\* rows.
columnSortedIntoTopRows(grid, col) ==
  LET rows == entryRowsOf(grid, col)
      values == sortAscending([i \in 1..Len(rows) |-> grid[rows[i]][col]])
  IN [row \in 1..ROWS |-> IF row <= Len(values) THEN values[row] ELSE null]

\* The cells of column col, by row, after the pass of the loop for col.
columnSorted(grid, col) ==
  LET rows == entryRowsOf(grid, col)
      entries == sortAscending([i \in 1..Len(rows) |-> grid[rows[i]][col]])
      originalRows == sortAscending(rows)
  IN IF Len(rows) <= 1
     THEN [row \in 1..ROWS |-> grid[row][col]]
     ELSE [row \in 1..ROWS |->
            IF \E i \in 1..Len(originalRows) : originalRows[i] = row
            THEN entries[CHOOSE i \in 1..Len(originalRows) : originalRows[i] = row]
            ELSE grid[row][col]]

\* One pass of the loop over the columns: row[col] = entry.value is its
\* only write.
sortColumnPass(grid, col) ==
  [row \in 1..ROWS |->
    [c \in 1..COLUMNS |->
      IF c = col THEN columnSorted(grid, col)[row] ELSE grid[row][c]]]

RECURSIVE sortColumnsFrom(_, _)
sortColumnsFrom(grid, col) ==
  IF col > COLUMNS THEN grid
  ELSE sortColumnsFrom(sortColumnPass(grid, col), col + 1)

sortColumnsAscending(grid) == sortColumnsFrom(grid, 1)

\* Grids as placeNumbersInGrid can leave them, and grids beyond those: the
\* occupied cells of a base grid, each of the columns RefilledColumns
\* refilled with every choice of that column's values for its cells,
\* repeated values included.
RefilledColumns == { 4, 5, 6 }

columnRefilled(grid, col, rows, values) ==
  [row \in 1..ROWS |->
    [c \in 1..COLUMNS |->
      IF c = col /\ \E i \in 1..Len(rows) : rows[i] = row
      THEN values[CHOOSE i \in 1..Len(rows) : rows[i] = row]
      ELSE grid[row][c]]]

RECURSIVE refillsFrom(_, _, _)
refillsFrom(base, grid, col) ==
  IF col > COLUMNS THEN { grid }
  ELSE IF col \notin RefilledColumns THEN refillsFrom(base, grid, col + 1)
  ELSE LET rows == entryRowsOf(base, col)
           columnValues == Range(numbersInColumnOf(base, col))
       IN UNION { refillsFrom(base, columnRefilled(grid, col, rows, values), col + 1) :
                    values \in [1..Len(rows) -> columnValues] }

PlacedGrids == UNION { refillsFrom(base, base, 1) : base \in { GridA, GridB, GridE } }

SortInit ==
  /\ ValIdle
  /\ PlateIdle
  /\ BatchIdle
  /\ PrankIdle
  /\ ComposableIdle
  /\ draftPc = "sort"
  /\ tape = << >>
  /\ tapePos = 0
  /\ columnOrder = << >>
  /\ loopIdx = 0
  /\ columnCounts = << >>
  /\ rowCounts = << >>
  /\ draftGrid \in PlacedGrids
  /\ gaveUp = FALSE
  /\ repairs = 0
  /\ LookupIdle
  /\ OverlapIdle

\* sortColumnsAscending(grid)
SortColumnsAscending ==
  /\ draftPc = "sort"
  /\ draftGrid' = sortColumnsAscending(draftGrid)
  /\ draftPc' = "extract"
  /\ UNCHANGED << tape, tapePos, columnOrder, loopIdx, columnCounts,
                  rowCounts, gaveUp, repairs >>
  /\ UNCHANGED plateVars
  /\ DraftOnly

SortNext == SortColumnsAscending

SpecSort == SortInit /\ [][SortNext]_vars

ascending(s) == \A i \in 1..(Len(s) - 1) : s[i] <= s[i + 1]

distinctValues(s) == \A i, j \in 1..Len(s) : i # j => s[i] # s[j]

\* C25: a call of sortColumnsAscending keeps, in every column, the rows
\* that hold a number and the multiset of the column's values, and leaves
\* the values of the column ascending from the top row down, strictly
\* ascending when they are pairwise different; the pass of the loop for
\* one column changes no cell of another column.
C25_ColumnsSortedInPlace ==
  [][(draftPc = "sort" /\ draftPc' = "extract") =>
       \A col \in 1..COLUMNS :
         LET before == numbersInColumnOf(draftGrid, col)
             after == numbersInColumnOf(draftGrid', col)
         IN /\ entryRowsOf(draftGrid', col) = entryRowsOf(draftGrid, col)
            /\ sameMultiset(before, after)
            /\ ascending(after)
            /\ distinctValues(before) => strictlyAscending(after)
            /\ \A other \in (1..COLUMNS) \ { col }, row \in 1..ROWS :
                 sortColumnPass(draftGrid, col)[row][other]
                   = draftGrid[row][other]]_vars

\* A column of three numbers placed in descending order has been sorted.
C25_Witness ==
  /\ draftPc = "extract"
  /\ draftGrid = GridA

\* C26: for every plate of the batch and every plate generatePlate can
\* return, the two have the same hash exactly when they hold the same
\* numbers, whatever their grids and ids, under getPlateHash of the
\* generator and under getPlateHash of the validator; and the two functions
\* give every plate of the batch the same string.
C26_HashIsNumberSet ==
  \A i \in 1..Len(plates) :
    /\ getPlateHash(plates[i]) = validatorGetPlateHash(plates[i])
    /\ \A q \in generatePlateReturns :
         /\ (getPlateHash(plates[i]) = getPlateHash(q))
              <=> (Range(plates[i].numbers) = Range(q.numbers))
         /\ (validatorGetPlateHash(plates[i]) = validatorGetPlateHash(q))
              <=> (Range(plates[i].numbers) = Range(q.numbers))

\* A plate was skipped as a duplicate of a plate of the batch that has
\* another grid and another id, and the batch holds two plates.
C26_Witness ==
  /\ Len(plates) = 2
  /\ \E i \in 1..Len(plates), q \in generatePlateReturns :
       /\ q.id \in skippedIds
       /\ q.id # plates[i].id
       /\ q.grid # plates[i].grid
       /\ getPlateHash(q) = getPlateHash(plates[i])

(***************************************************************************)
(* analyzePrankEffectiveness (prankCalculator.ts:286-332). A message is a  *)
(* list of its parts: the sign it opens with, the numbers in it and its    *)
(* words (ae, oe and aa for the Danish letters).                           *)
(***************************************************************************)
warningSign == "warning"
successSign == "success"

\* A faulty variant of the recommendations: the number of blocked plates
\* is not looked at.
recommendationsByLengthOnly(excludedLength, blockedCount, nonWinningLength) ==
  IF excludedLength = 0
  THEN << << warningSign, "Ingen numre at ekskludere - alle plader kan vinde" >>,
          << "Proev at reducere antallet af vindende plader" >> >>
  ELSE << << successSign, "Pranken virker!", "Faa numre at fjerne - let at skjule" >> >>

\* The if-chain of prankCalculator.ts:313-328.
recommendationsOf(excludedLength, blockedCount, nonWinningLength) ==
  IF blockedCount < nonWinningLength
  THEN << << warningSign, nonWinningLength - blockedCount,
             "ikke-vindende plader kan stadig vinde!" >>,
          << "Proev at reducere antallet af vindende plader for bedre effekt" >> >>
  ELSE IF excludedLength = 0
  THEN << << warningSign, "Ingen numre at ekskludere - alle plader kan vinde" >>,
          << "Proev at reducere antallet af vindende plader" >> >>
  ELSE IF excludedLength <= 10
  THEN << << successSign, "Pranken virker!", "Faa numre at fjerne - let at skjule" >> >>
  ELSE IF excludedLength <= 20
  THEN << << successSign, "Pranken virker!", "Moderat antal numre at fjerne" >> >>
  ELSE << << successSign, "Pranken virker!", "Men mange numre at fjerne" >>,
          << warningSign, "Kan virke mistaenkeligt med saa mange manglende numre" >> >>

\* effectiveness is blockedCount / nonWinningPlates.length * 100, kept as
\* the pair of the numerator and the denominator; 0 without non-winners.
analyzePrankEffectiveness(result) ==
  LET nonWinningPlates == SelectSeq(result.plates, LAMBDA p : ~p.isWinning)
      excludedSet == Range(result.excludedNumbers)
      blockedCount ==
        Cardinality({ i \in 1..Len(nonWinningPlates) :
                        Range(nonWinningPlates[i].numbers) \cap excludedSet # { } })
  IN [analysis |->
        << << Len(result.excludedNumbers), "numre skal fjernes fra traekposen" >>,
           << result.summary.winningPlates, "ud af", result.summary.totalPlates,
              "plader kan vinde" >>,
           << blockedCount, "af", Len(nonWinningPlates),
              "ikke-vindende plader er blokeret" >> >>,
      recommendations |->
        recommendationsOf(Len(result.excludedNumbers), blockedCount,
                          Len(nonWinningPlates)),
      effectiveness |->
        IF Len(nonWinningPlates) > 0
        THEN << blockedCount * 100, Len(nonWinningPlates) >>
        ELSE << 0, 1 >>]

hasSuccessMessage(recommendations) ==
  \E i \in 1..Len(recommendations) :
    /\ recommendations[i][1] = successSign
    /\ recommendations[i][2] = "Pranken virker!"

hasWarning(recommendations) ==
  \E i \in 1..Len(recommendations) : recommendations[i][1] = warningSign

prankWorks(result) ==
  /\ Len(result.excludedNumbers) > 0
  /\ \A i \in 1..Len(result.plates) :
       ~result.plates[i].isWinning =>
         Range(result.plates[i].numbers) \cap Range(result.excludedNumbers) # { }

\* C27: for the result generatePrankPlates returned, the recommendations
\* of analyzePrankEffectiveness hold the message 'Pranken virker!' exactly
\* when excludedNumbers is not empty and every plate that is not marked as
\* winning holds an excluded number; otherwise they hold a warning and no
\* such message.
C27_SuccessMessageIffBlocked ==
  prankPc = "returned" =>
    LET recommendations == analyzePrankEffectiveness(prankResult).recommendations
    IN /\ hasSuccessMessage(recommendations) <=> prankWorks(prankResult)
       /\ ~prankWorks(prankResult) =>
            (hasWarning(recommendations) /\ ~hasSuccessMessage(recommendations))

\* A result with excluded numbers that leaves a non-winning plate without
\* one has been analysed.
C27_Witness ==
  /\ prankPc = "returned"
  /\ Len(prankResult.excludedNumbers) > 0
  /\ ~prankWorks(prankResult)
  /\ hasWarning(analyzePrankEffectiveness(prankResult).recommendations)

(***************************************************************************)
(* validator.ts getColumnForNumber (lines 273-280), called with an         *)
(* integer. The column it returns counts from 0, as in the code.           *)
(***************************************************************************)
NumberMargin == 5

NumberInputs == (1 - NumberMargin)..(90 + NumberMargin)

\* A faulty variant without the two special cases: Math.floor(num / 10).
getColumnByTens(n) == n \div 10

getColumnForNumberThrows(n) == n < 1 \/ n > 90

getColumnForNumber(n) ==
  IF n <= 9 THEN 0
  ELSE IF n >= 80 THEN 8
  ELSE n \div 10

ColumnInit ==
  /\ ValIdle
  /\ PlateIdle
  /\ BatchIdle
  /\ PrankIdle
  /\ ComposableIdle
  /\ DraftIdle
  /\ OverlapIdle
  /\ columnPc = "called"
  /\ numArg \in NumberInputs
  /\ column = null
  /\ columnError = NoError

\* if (num < 1 || num > 90) throw new Error(`Invalid banko number: ${num}`)
GetColumnForNumberThrows ==
  /\ columnPc = "called"
  /\ getColumnForNumberThrows(numArg)
  /\ columnError' = << "Invalid banko number:", numArg >>
  /\ columnPc' = "thrown"
  /\ UNCHANGED << numArg, column >>
  /\ LookupOnly

GetColumnForNumberReturns ==
  /\ columnPc = "called"
  /\ ~getColumnForNumberThrows(numArg)
  /\ column' = getColumnForNumber(numArg)
  /\ columnPc' = "returned"
  /\ UNCHANGED << numArg, columnError >>
  /\ LookupOnly

ColumnNext ==
  \/ GetColumnForNumberThrows
  \/ GetColumnForNumberReturns

SpecColumn == ColumnInit /\ [][ColumnNext]_vars

inColumnRange(n, c) ==
  COLUMN_RANGES[c + 1].min <= n /\ n <= COLUMN_RANGES[c + 1].max

\* C30: a call of getColumnForNumber with an integer of 1..90 returns the
\* one column of 0..8 whose range in COLUMN_RANGES holds the number; a
\* call with an integer below 1 or above 90 throws and returns no column.
C30_ColumnOfNumber ==
  /\ columnPc = "returned" =>
       /\ numArg \in 1..90
       /\ column \in 0..(COLUMNS - 1)
       /\ \A c \in 0..(COLUMNS - 1) : inColumnRange(numArg, c) <=> c = column
       /\ columnError = NoError
  /\ columnPc = "thrown" =>
       /\ numArg < 1 \/ numArg > 90
       /\ column = null
       /\ columnError # NoError

\* The call with 90, the eleventh number of the last column, has returned.
C30_Witness ==
  /\ columnPc = "returned"
  /\ numArg = 90
  /\ column = 8

(***************************************************************************)
(* useBankoGenerator when a method is called while an earlier call waits   *)
(* for its timer: neither method looks at isGenerating before it starts.   *)
(* Every call sets a timer of 10 ms and timers of one delay fire in the    *)
(* order they were set, so the call that has waited longest goes on first. *)
(***************************************************************************)
MaxCalls == 2

OverlapInit ==
  /\ ValIdle
  /\ PlateIdle
  /\ BatchIdle
  /\ PrankIdle
  /\ ComposableIdle
  /\ DraftIdle
  /\ LookupIdle
  /\ OverlapIdle

\* isGenerating.value = true; error.value = null; then the await.
overlapCallStarted(call) ==
  /\ callsMade < MaxCalls
  /\ pendingCalls' = Append(pendingCalls, call)
  /\ callsMade' = callsMade + 1
  /\ isGenerating' = TRUE
  /\ error' = NoError
  /\ UNCHANGED << generationResult, genPc, genCall, promise, thrown,
                  lastOutcome >>
  /\ ComposableOnly

StartGenerateNormalPlates ==
  \E n \in (0 - 1)..MaxCount :
    overlapCallStarted([kind |-> "normal", count |-> n, config |-> NoConfig])

StartGeneratePrankPlatesWithAnalysis ==
  \E cfg \in ComposableConfigs :
    overlapCallStarted([kind |-> "prank", count |-> 0, config |-> cfg])

\* The catch and the finally block of the call that goes on.
overlapCallFailed(err, fallback) ==
  /\ error' = errorMessageOf(err, fallback)
  /\ generationResult' = nullResult
  /\ isGenerating' = FALSE
  /\ pendingCalls' = Tail(pendingCalls)
  /\ lastOutcome' = "failed"
  /\ UNCHANGED << callsMade, genPc, genCall, promise, thrown >>
  /\ ComposableOnly

\* The end of the try block and the finally block of the call that goes
\* on.
overlapCallSucceeded(result) ==
  /\ generationResult' = result
  /\ isGenerating' = FALSE
  /\ pendingCalls' = Tail(pendingCalls)
  /\ lastOutcome' = "succeeded"
  /\ UNCHANGED << error, callsMade, genPc, genCall, promise, thrown >>
  /\ ComposableOnly

FinishGenerateNormalPlates ==
  /\ pendingCalls # << >>
  /\ Head(pendingCalls).kind = "normal"
  /\ \/ \E ps \in generatePlatesReturns(Head(pendingCalls).count) :
          overlapCallSucceeded(normalResultOf(ps, Head(pendingCalls).count))
     \/ \E err \in composableGeneratePlatesThrows(Head(pendingCalls).count) :
          overlapCallFailed(err, << "Failed to generate plates" >>)

FinishGeneratePrankPlatesWithAnalysis ==
  /\ pendingCalls # << >>
  /\ Head(pendingCalls).kind = "prank"
  /\ \/ \E result \in generatePrankPlatesReturns(Head(pendingCalls).config) :
          overlapCallSucceeded(result)
     \/ \E err \in generatePrankPlatesThrows(Head(pendingCalls).config) :
          overlapCallFailed(err, << "Failed to generate prank plates" >>)

OverlapNext ==
  \/ StartGenerateNormalPlates
  \/ StartGeneratePrankPlatesWithAnalysis
  \/ FinishGenerateNormalPlates
  \/ FinishGeneratePrankPlatesWithAnalysis
  \/ ClearResult

SpecOverlap == OverlapInit /\ [][OverlapNext]_vars

\* C29: once a call of generateNormalPlates or
\* generatePrankPlatesWithAnalysis has ended, error and generationResult
\* are not both set, and isGenerating is true as long as a call waits for
\* its timer, also when calls overlap.
C29_RefsConsistentUnderOverlap ==
  /\ lastOutcome # "none" =>
       ~(error # NoError /\ generationResult # nullResult)
  /\ pendingCalls # << >> => isGenerating

(***************************************************************************)
(* attemptPlateGeneration (plateGenerator.ts:88-105) step by step, inside  *)
(* the loop of generatePlate. Math.random() returns the values of a tape,  *)
(* in tenths, one after the other and from the start again at its end;     *)
(* the tape is any list of TapeLength values out of DraftFractions. The    *)
(* id of the draft is drawn apart from the tape, when the draft is         *)
(* returned.                                                               *)
(***************************************************************************)
TapeLength == 5

DraftFractions == { 0, 5, 9 }

RandomTapes == [1..TapeLength -> DraftFractions]

nextPos(pos) == (pos % TapeLength) + 1

\* Math.floor(Math.random() * (max - min + 1)) + min
randomInt(min, max, fraction) == ((fraction * (max - min + 1)) \div 10) + min

\* shuffleArray: for (let i = result.length - 1; i > 0; i--) swap result[i]
\* and result[randomInt(0, i)]. Gives the shuffled list and the place of
\* the next value of the tape.
RECURSIVE shuffleFrom(_, _, _, _)
shuffleFrom(result, i, tp, pos) ==
  IF i <= 0 THEN [result |-> result, pos |-> pos]
  ELSE LET j == randomInt(0, i, tp[pos])
       IN shuffleFrom([result EXCEPT ![i + 1] = result[j + 1],
                                     ![j + 1] = result[i + 1]],
                      i - 1, tp, nextPos(pos))

shuffleArray(array, tp, pos) == shuffleFrom(array, Len(array) - 1, tp, pos)

\* [0, 1, 2].filter(row => rowCounts[row] < NUMBERS_PER_ROW), rows counted
\* from 1.
availableRowsOf(rc) ==
  SelectSeq([row \in 1..ROWS |-> row], LAMBDA row : rc[row] < NUMBERS_PER_ROW)

\* The loop over selectedRows with its test of the row's count.
RECURSIVE pushRows(_, _, _, _)
pushRows(cc, rc, col, rows) ==
  IF rows = << >> THEN [columnCounts |-> cc, rowCounts |-> rc]
  ELSE IF rc[Head(rows)] < NUMBERS_PER_ROW
  THEN pushRows([cc EXCEPT ![col] = Append(@, Head(rows))],
                [rc EXCEPT ![Head(rows)] = @ + 1], col, Tail(rows))
  ELSE pushRows(cc, rc, col, Tail(rows))

\* A faulty variant of the filter of the repair loop: only columns without
\* any row pass.
availableColumnsEmptyOnly(order, cc, row) ==
  SelectSeq(order, LAMBDA col : Len(cc[col]) = 0)

\* columnOrder.filter(col => colData.length < MAX_PER_COLUMN &&
\* !colData.includes(row))
availableColumnsOf(order, cc, row) ==
  SelectSeq(order, LAMBDA col :
    Len(cc[col]) < MAX_PER_COLUMN /\ row \notin Range(cc[col]))

\* generateUniqueNumbersInRange: count draws out of min..max, each number
\* drawn is taken out of the list. count is at most 3 and every range has
\* 9 numbers or more, so its throw is not taken.
RECURSIVE drawNumbers(_, _, _, _, _)
drawNumbers(available, result, n, tp, pos) ==
  IF n = 0 THEN [result |-> result, pos |-> pos]
  ELSE LET idx == randomInt(0, Len(available) - 1, tp[pos])
       IN drawNumbers(SubSeq(available, 1, idx)
                        \o SubSeq(available, idx + 2, Len(available)),
                      Append(result, available[idx + 1]), n - 1, tp,
                      nextPos(pos))

generateUniqueNumbersInRange(min, max, n, tp, pos) ==
  drawNumbers([i \in 1..(max - min + 1) |-> min + i - 1], << >>, n, tp, pos)

createEmptyGrid == [row \in 1..ROWS |-> [col \in 1..COLUMNS |-> null]]

\* placeNumbersInGrid: the loop over the columns from column col on.
RECURSIVE placeFrom(_, _, _, _, _)
placeFrom(grid, cc, col, tp, pos) ==
  IF col > COLUMNS THEN [grid |-> grid, pos |-> pos]
  ELSE IF Len(cc[col]) = 0 THEN placeFrom(grid, cc, col + 1, tp, pos)
  ELSE LET drawn == generateUniqueNumbersInRange(
                      COLUMN_RANGES[col].min, COLUMN_RANGES[col].max,
                      Len(cc[col]), tp, pos)
       IN placeFrom(columnRefilled(grid, col, cc[col], drawn.result), cc,
                    col + 1, tp, drawn.pos)

placeNumbersInGrid(grid, cc, tp, pos) == placeFrom(grid, cc, 1, tp, pos)

DraftInit ==
  /\ ValIdle
  /\ PlateIdle
  /\ BatchIdle
  /\ PrankIdle
  /\ ComposableIdle
  /\ LookupIdle
  /\ OverlapIdle
  /\ draftPc = "idle"
  /\ tape \in RandomTapes
  /\ tapePos = 1
  /\ columnOrder = << >>
  /\ loopIdx = 0
  /\ columnCounts = << >>
  /\ rowCounts = << >>
  /\ draftGrid = << >>
  /\ gaveUp = FALSE
  /\ repairs = 0

\* const grid = createEmptyGrid(), and distributeColumnsToRows up to its
\* first loop.
StartDraft ==
  /\ platePc = "loop"
  /\ plateLoopContinues(attempt)
  /\ draftPc = "idle"
  /\ LET shuffled == shuffleArray([col \in 1..COLUMNS |-> col], tape, tapePos)
     IN /\ columnOrder' = shuffled.result
        /\ tapePos' = shuffled.pos
  /\ draftGrid' = createEmptyGrid
  /\ columnCounts' = [col \in 1..COLUMNS |-> << >>]
  /\ rowCounts' = [row \in 1..ROWS |-> 0]
  /\ loopIdx' = 1
  /\ gaveUp' = FALSE
  /\ repairs' = 0
  /\ draftPc' = "seed"
  /\ UNCHANGED << tape, plateVars >>
  /\ DraftOnly

\* One pass of `for (const col of columnOrder)`.
SeedColumn ==
  /\ draftPc = "seed"
  /\ LET col == columnOrder[loopIdx]
         availableRows == availableRowsOf(rowCounts)
         picked == IF randomInt(1, MAX_PER_COLUMN, tape[tapePos]) < Len(availableRows)
                   THEN randomInt(1, MAX_PER_COLUMN, tape[tapePos])
                   ELSE Len(availableRows)
         shuffled == shuffleArray(availableRows, tape, nextPos(tapePos))
         selectedRows == SubSeq(shuffled.result, 1, picked)
         pushed == pushRows(columnCounts, rowCounts, col, selectedRows)
     IN IF Len(availableRows) = 0
        THEN UNCHANGED << tapePos, columnCounts, rowCounts >>
        ELSE /\ columnCounts' = pushed.columnCounts
             /\ rowCounts' = pushed.rowCounts
             /\ tapePos' = shuffled.pos
  /\ loopIdx' = IF loopIdx = COLUMNS THEN 1 ELSE loopIdx + 1
  /\ draftPc' = IF loopIdx = COLUMNS THEN "repair" ELSE "seed"
  /\ UNCHANGED << tape, columnOrder, draftGrid, gaveUp, repairs, plateVars >>
  /\ DraftOnly

\* One pass of the while loop of row loopIdx, or the step to the next row
\* when the row has 5 columns or the loop is left by its break. The
\* counts only grow, so currentRowCount < 5 follows from rowCounts[row] < 5.
RepairRow ==
  /\ draftPc = "repair"
  /\ LET row == loopIdx
         availableColumns == availableColumnsOf(columnOrder, columnCounts, row)
         colIdx == randomInt(0, Len(availableColumns) - 1, tape[tapePos])
         col == availableColumns[colIdx + 1]
     IN IF rowCounts[row] < NUMBERS_PER_ROW /\ Len(availableColumns) > 0
        THEN /\ columnCounts' = [columnCounts EXCEPT ![col] = Append(@, row)]
             /\ rowCounts' = [rowCounts EXCEPT ![row] = @ + 1]
             /\ tapePos' = nextPos(tapePos)
             /\ repairs' = repairs + 1
             /\ UNCHANGED << loopIdx, draftPc, gaveUp >>
        ELSE /\ gaveUp' = (gaveUp \/ rowCounts[row] < NUMBERS_PER_ROW)
             /\ loopIdx' = IF row = ROWS THEN 1 ELSE row + 1
             /\ draftPc' = IF row = ROWS THEN "place" ELSE "repair"
             /\ UNCHANGED << columnCounts, rowCounts, tapePos, repairs >>
  /\ UNCHANGED << tape, columnOrder, draftGrid, plateVars >>
  /\ DraftOnly

\* placeNumbersInGrid(grid, columnCounts)
PlaceNumbersInGrid ==
  /\ draftPc = "place"
  /\ LET placed == placeNumbersInGrid(draftGrid, columnCounts, tape, tapePos)
     IN /\ draftGrid' = placed.grid
        /\ tapePos' = placed.pos
  /\ draftPc' = "sort"
  /\ UNCHANGED << tape, columnOrder, loopIdx, columnCounts, rowCounts,
                  gaveUp, repairs, plateVars >>
  /\ DraftOnly

\* const numbers = extractNumbers(grid); return { id, grid, numbers }
ReturnDraft ==
  /\ draftPc = "extract"
  /\ platePc = "loop"
  /\ \E ts \in ClockValues, f \in RandomFractions :
       plate' = makePlate(generatePlateId(ts, f), draftGrid)
  /\ plateValidation' = NoValidation
  /\ built' = built + 1
  /\ platePc' = "validate"
  /\ draftPc' = "idle"
  /\ UNCHANGED << attempt, plateError, rejections >>
  /\ UNCHANGED << tape, tapePos, columnOrder, loopIdx, columnCounts,
                  rowCounts, draftGrid, gaveUp, repairs >>
  /\ DraftOnly

DraftNext ==
  \/ CallGeneratePlate
  \/ StartDraft
  \/ SeedColumn
  \/ RepairRow
  \/ PlaceNumbersInGrid
  \/ SortColumnsAscending
  \/ ReturnDraft
  \/ ValidateDraft

SpecDraft == DraftInit /\ [][DraftNext]_vars

columnsOfRow(cc, row) == { col \in 1..COLUMNS : row \in Range(cc[col]) }

\* C28: in distributeColumnsToRows every column holds at most 3 rows, all
\* different, and every row is in at most 5 columns; the repair loop is
\* never left while its row is short, so every row is in exactly 5 columns
\* when the numbers are placed; the draft is valid, generatePlate takes it
\* on its first pass, and the loop never comes to its 1000th pass, after
\* which the error is thrown.
C28_EveryDraftValid ==
  /\ draftPc \in { "seed", "repair", "place", "sort", "extract" } =>
       /\ \A col \in 1..COLUMNS :
            /\ Len(columnCounts[col]) <= MAX_PER_COLUMN
            /\ Cardinality(Range(columnCounts[col])) = Len(columnCounts[col])
       /\ \A row \in 1..ROWS :
            /\ rowCounts[row] <= NUMBERS_PER_ROW
            /\ rowCounts[row] = Cardinality(columnsOfRow(columnCounts, row))
  /\ ~gaveUp
  /\ draftPc \in { "place", "sort", "extract" } =>
       \A row \in 1..ROWS : rowCounts[row] = NUMBERS_PER_ROW
  /\ platePc \in { "validate", "returned" } => validatePlate(plate).isValid
  /\ attempt = 0
  /\ rejections = 0
  /\ plateLoopContinues(attempt)
  /\ platePc # "thrown"

\* generatePlate has returned a draft in which the repair loop gave rows
\* to columns 6 times, the most there can be.
C28_Witness ==
  /\ platePc = "returned"
  /\ repairs = 6

====
